---------------------------- MODULE Spec2Model ----------------------------
(***************************************************************************)
(* Model of the step runner of hammer-vlsi: HammerTool.run_steps and the   *)
(* hook factory helpers of src/hammer-vlsi/hammer_vlsi/hammer_tool.py.     *)
(*                                                                         *)
(* One call of run_steps is a state machine:                               *)
(*   "check_duplicates" -> "hooks" -> "check_types" -> "run"               *)
(*                      -> "post_steps" -> "done"                          *)
(* with one action per hook of the hook loop and one action per iteration  *)
(* of the step loop.  A step is a record [name, func]; func is the name of *)
(* the Python function behind the step.  What a step function does when    *)
(* it is called (returns True, returns False, raises the pause exception,  *)
(* returns a non-boolean) is decided by the environment at the call.       *)
(***************************************************************************)
EXTENDS Integers, Sequences, FiniteSets, TLC

\* ------------------------------------------------------------------------
\* Bounds of the model
\* ------------------------------------------------------------------------
MaxSteps == 3
MaxHooks == 2

\* ------------------------------------------------------------------------
\* Values
\* ------------------------------------------------------------------------
\* An Optional[str] value is None or Some(s) for a string s: a string can be
\* any step name, "None" included, so None is not one of the strings.
None == <<>>
Some(s) == <<s>>

\* Written in the record of a call where there is nothing to record: the
\* value of a callback, which run_steps drops, or the step name of a log
\* message that names no step.
Unrecorded == "None"

\* HookLocation members (hooks.HookLocation).
ReplaceStep == "ReplaceStep"
InsertPreStep == "InsertPreStep"
InsertPostStep == "InsertPostStep"
ResumePreStep == "ResumePreStep"
ResumePostStep == "ResumePostStep"

\* The exceptions raised by a factory, in the place of the value it returns.
ValueError == [raised |-> "ValueError"]
TypeError == [raised |-> "TypeError"]
AttributeError == [raised |-> "AttributeError"]
raised(v) == "raised" \in DOMAIN v

\* A function value, as far as the program inspects it:
\*   name     its __name__;
\*   body     the code that a call of it runs: where the function is
\*            defined (in the tool, by a caller, or as a local function of
\*            make_pause_function or make_removal_hook) and its name there;
\*   self     TRUE for a bound method (it has the attribute __self__);
\*   params   the annotation of each parameter of the definition, in order,
\*            the self of a method included, "" for a parameter without
\*            annotation;
\*   returns  the return annotation, "" when there is none.
function_value(name, body, self, params, returns) ==
    [name |-> name, body |-> body, self |-> self, params |-> params,
     returns |-> returns]

\* A bound method of the tool: "def name(self) -> bool", read as tool.name.
bound_method(name) ==
    function_value(name, <<"tool", name>>, TRUE, <<"">>, "bool")

\* A function of a caller: "def name(ht: HammerTool) -> bool".
step_function(name) ==
    function_value(name, <<"caller", name>>, FALSE, <<"HammerTool">>, "bool")

\* Functions and methods that do not have the signature of a step:
\* "def untyped(ht)", "def wrongret(ht: HammerTool) -> int" and the bound
\* methods "def badmethod(self) -> int" and
\* "def annself(self: HammerTool) -> bool".
untyped ==
    function_value("untyped", <<"caller", "untyped">>, FALSE, <<"">>, "")
wrongret ==
    function_value("wrongret", <<"caller", "wrongret">>, FALSE,
                   <<"HammerTool">>, "int")
badmethod ==
    function_value("badmethod", <<"tool", "badmethod">>, TRUE, <<"">>, "int")
annself ==
    function_value("annself", <<"tool", "annself">>, TRUE, <<"HammerTool">>,
                   "bool")

\* A value that is not callable, such as a number.
not_callable == [value |-> 0]

\* callable(func).
callable(func) == "body" \in DOMAIN func

\* hasattr(func, "__self__").
has_self(func) == IF callable(func) THEN func.self ELSE FALSE

\* inspect.getfullargspec(func).annotations == {'return': bool}: the
\* annotations of all the parameters of the definition, the self of a bound
\* method included.
annotations_return_bool(func) ==
    /\ func.returns = "bool"
    /\ \A i \in DOMAIN func.params : func.params[i] = ""

\* The declared parameter types of func: the annotations of the definition,
\* in order, without the parameters that have none.
IsAnnotated(a) == a # ""
declared_params(func) == SelectSeq(func.params, IsAnnotated)

\* check_hammer_step_function(func) returns (TRUE) or raises TypeError
\* (FALSE): assert_function_type(func, args=[HammerTool], return_type=bool)
\* accepts func when its declared contract is exactly one parameter of type
\* HammerTool and the return type bool.
check_hammer_step_function(func) ==
    IF ~callable(func) THEN FALSE
    ELSE declared_params(func) = <<"HammerTool">> /\ func.returns = "bool"

\* HammerToolStep(func, name), the NamedTuple: no check of its fields.
HammerToolStep(func, name) == [name |-> name, func |-> func]

\* An object with the attributes name and func that is not an instance of
\* HammerToolStep.
OtherStep(func, name) == [name |-> name, func |-> func, other |-> TRUE]

\* isinstance(step, HammerToolStep).
isinstance_HammerToolStep(step) == DOMAIN step = {"name", "func"}

\* make_raw_hammer_tool_step(func, name).
make_raw_hammer_tool_step(func, name) ==
    IF ~check_hammer_step_function(func) THEN TypeError
    ELSE HammerToolStep(func, name)

\* An absent step (step=None in a hook action, prev_step = None in the loop).
NoStep == [absent |-> TRUE]

\* HammerToolHookAction(target_name, location, step).
HammerToolHookAction(target_name, location, step) ==
    [target_name |-> target_name, location |-> location, step |-> step]

\* make_step_from_function(func, name): name defaults to func.__name__.
make_step_from_function(func, name) ==
    IF has_self(func) THEN ValueError
    ELSE IF name = "" /\ ~callable(func) THEN AttributeError
    ELSE make_raw_hammer_tool_step(func, IF name = "" THEN func.name ELSE name)

\* The local function wrapper of make_step_from_method,
\* "def wrapper(x: HammerTool) -> bool: return func.__func__(x)".
wrapper(func) ==
    function_value("wrapper", func.body, FALSE, <<"HammerTool">>, "bool")

\* make_step_from_method(func, name): the step of a bound method of the
\* tool; name defaults to func.__name__.
make_step_from_method(func, name) ==
    IF ~callable(func) THEN TypeError
    ELSE IF ~has_self(func) THEN ValueError
    ELSE IF ~annotations_return_bool(func) THEN TypeError
    ELSE make_raw_hammer_tool_step(wrapper(func),
                                   IF name = "" THEN func.name ELSE name)

\* make_pause_function(): the local function "pause", which raises
\* HammerToolPauseException.
make_pause_function ==
    function_value("pause", <<"make_pause_function", "pause">>, FALSE,
                   <<"HammerTool">>, "bool")

\* The local function dummy_step of make_removal_hook, which returns True.
dummy_step ==
    function_value("dummy_step", <<"make_removal_hook", "dummy_step">>, FALSE,
                   <<"HammerTool">>, "bool")

\* What a call step.func(self) can do: the two local functions do what their
\* code says; a function of the tool or of a caller, whatever its name, can
\* return True, False or another value, raise HammerToolPauseException
\* ("pause") or raise another exception ("raise").
FuncOutcomes(func) ==
    IF func.body = make_pause_function.body THEN {"pause"}
    ELSE IF func.body = dummy_step.body THEN {"true"}
    ELSE {"true", "false", "pause", "nonbool", "raise"}

\* ------------------------------------------------------------------------
\* Hook factories
\* ------------------------------------------------------------------------
\* A hook action with the given step, or the exception that building the
\* step raised.
hook_action_with(target_name, location, step) ==
    IF raised(step) THEN step
    ELSE HammerToolHookAction(target_name, location, step)

make_replacement_hook(step, func) ==
    hook_action_with(step, ReplaceStep, make_step_from_function(func, step))

\* A make_insertion_hook without the location check.
make_insertion_hook_unchecked(step, location, func) ==
    hook_action_with(step, location, make_step_from_function(func, ""))

\* Raises ValueError for a location that is not Insert*.
make_insertion_hook(step, location, func) ==
    IF location # InsertPreStep /\ location # InsertPostStep
    THEN ValueError
    ELSE hook_action_with(step, location, make_step_from_function(func, ""))

make_resume_hook(step, location) ==
    IF location # ResumePreStep /\ location # ResumePostStep
    THEN ValueError
    ELSE HammerToolHookAction(step, location, NoStep)

\* A make_pre_pause_hook whose pause step has a name of its own.
make_pre_pause_hook_own_name(step) ==
    HammerToolHookAction(step, InsertPreStep,
                         make_step_from_function(make_pause_function, "pre_pause"))

make_pre_pause_hook(step) ==
    make_insertion_hook(step, InsertPreStep, make_pause_function)

make_post_pause_hook(step) ==
    make_insertion_hook(step, InsertPostStep, make_pause_function)

make_pre_resume_hook(step) == make_resume_hook(step, ResumePreStep)

make_post_resume_hook(step) == make_resume_hook(step, ResumePostStep)

\* A make_from_to_hooks that resumes after from_step.
make_from_to_hooks_resume_after(from_step, to_step) ==
    (IF from_step # None THEN <<make_post_resume_hook(from_step[1])>> ELSE <<>>)
    \o (IF to_step # None THEN <<make_post_pause_hook(to_step[1])>> ELSE <<>>)

\* A make_from_to_hooks that leaves out the pause hook when from_step is
\* given.
make_from_to_hooks_no_pause(from_step, to_step) ==
    IF from_step # None THEN <<make_pre_resume_hook(from_step[1])>>
    ELSE IF to_step # None THEN <<make_post_pause_hook(to_step[1])>>
    ELSE <<>>

\* from_step and to_step are Optional[str] values: None or Some(name).
make_from_to_hooks(from_step, to_step) ==
    (IF from_step # None THEN <<make_pre_resume_hook(from_step[1])>> ELSE <<>>)
    \o (IF to_step # None THEN <<make_post_pause_hook(to_step[1])>> ELSE <<>>)

make_pre_insertion_hook(step, func) ==
    make_insertion_hook(step, InsertPreStep, func)

make_post_insertion_hook(step, func) ==
    make_insertion_hook(step, InsertPostStep, func)

make_removal_hook(step) ==
    hook_action_with(step, ReplaceStep,
                     make_step_from_function(dummy_step, step))

\* ------------------------------------------------------------------------
\* Inputs of the model
\* ------------------------------------------------------------------------
\* Names of the tool's own steps.
BaseNames == {"a", "b", "c"}

\* The step lists a tool can define: any sequence of its methods, repeated
\* names included.
RECURSIVE SeqsUpTo(_, _)
SeqsUpTo(S, n) ==
    IF n = 0 THEN {<<>>}
    ELSE LET shorter == SeqsUpTo(S, n - 1)
         IN  shorter \cup {Append(s, e) : s \in shorter, e \in S}

BaseSteps == {make_step_from_method(bound_method(n), "") : n \in BaseNames}

\* Hook targets and hook functions used by callers.
InsertTargets == {"a", "c"}
HookFuncs == {step_function("x"), step_function("y"), make_pause_function}
ResumeTargets == {"a", "b", "x"}

InsertHooks ==
    {make_insertion_hook(t, loc, f) :
        t \in InsertTargets, loc \in {InsertPreStep, InsertPostStep},
        f \in HookFuncs}

ResumeHooks ==
    {make_resume_hook(t, loc) :
        t \in ResumeTargets, loc \in {ResumePreStep, ResumePostStep}}

\* A replacement, a removal, and a hand-built ReplaceStep action whose step
\* is not named like its target.
ReplaceHooks ==
    { make_replacement_hook("b", step_function("x")),
      make_removal_hook("b"),
      HammerToolHookAction("b", ReplaceStep, make_step_from_function(step_function("x"), "")) }

HookVals == InsertHooks \cup ResumeHooks \cup ReplaceHooks

\* ------------------------------------------------------------------------
\* State
\* ------------------------------------------------------------------------
VARIABLES
    steps,            \* argument steps of run_steps
    hook_actions,     \* argument hook_actions of run_steps
    pc,               \* position in run_steps
    names,            \* local names (set of step names)
    new_steps,        \* local new_steps
    resume_step,      \* local resume_step (None or Some(name))
    resume_step_pre,  \* local resume_step_pre
    hook_index,       \* position of the hook loop (0-based)
    step_index,       \* local step_index of the step loop (0-based)
    prev_step,        \* local prev_step (NoStep or a step)
    events,           \* calls made: step functions and lifecycle callbacks
    log,              \* calls of self.logger
    result            \* "none" while running; "True"/"False" returned;
                      \* "AssertionError" raised

vars == <<steps, hook_actions, pc, names, new_steps, resume_step,
          resume_step_pre, hook_index, step_index, prev_step, events, log,
          result>>

\* ------------------------------------------------------------------------
\* Helpers of run_steps
\* ------------------------------------------------------------------------
Range(s) == {s[i] : i \in 1..Len(s)}

\* Index of the first duplicate (the step at which check_duplicates logs and
\* returns), 0 if there is none.
FirstDuplicate(lst) ==
    LET dups == {i \in 1..Len(lst) : \E j \in 1..(i - 1) : lst[j].name = lst[i].name}
    IN  IF dups = {} THEN 0 ELSE CHOOSE i \in dups : \A j \in dups : i <= j

\* A check_duplicates that accepts every list.
check_duplicates_lenient(lst) ==
    [duplicate_free |-> TRUE, names |-> {lst[i].name : i \in 1..Len(lst)}]

\* check_duplicates(lst) -> (duplicate_free, names)
check_duplicates(lst) ==
    IF FirstDuplicate(lst) # 0
    THEN [duplicate_free |-> FALSE, names |-> {}]
    ELSE [duplicate_free |-> TRUE, names |-> {lst[i].name : i \in 1..Len(lst)}]

\* A has_step that finds every name.
has_step_always(nms, name) == TRUE

\* has_step(name), over the local set names.
has_step(nms, name) == name \in nms

\* The search loop for step_id: first index whose name is the target,
\* 0-based as in the source; -1 when there is none.
step_id_of(lst, target_name) ==
    LET hits == {i \in 1..Len(lst) : lst[i].name = target_name}
    IN  IF hits = {} THEN -1
        ELSE (CHOOSE i \in hits : \A j \in hits : i <= j) - 1

\* A new_steps that is the caller's list itself instead of a copy of it.
caller_steps_aliased(caller, local) == local

\* "new_steps = list(steps)": new_steps is a copy, so the caller's list
\* after a write to new_steps (local) is the caller's list as it was.
caller_steps(caller, local) == caller

\* An insert that appends instead of inserting at the index.
list_insert_at_end(lst, index, step) == Append(lst, step)

\* list.insert(index, step) for a 0-based index within 0..len.
list_insert(lst, index, step) ==
    SubSeq(lst, 1, index) \o <<step>> \o SubSeq(lst, index + 1, Len(lst))

\* An assignment that deletes the element instead of replacing it.
list_set_deletes(lst, index, step) ==
    SubSeq(lst, 1, index) \o SubSeq(lst, index + 2, Len(lst))

\* new_steps[index] = step for a 0-based index.
list_set(lst, index, step) == [lst EXCEPT ![index + 1] = step]

\* A logger call that loses the level of the entry.
LogEntry_level_lost(level, msg, step) ==
    [level |-> "warning", msg |-> msg, step |-> step]

LogEntry(level, msg, step) == [level |-> level, msg |-> msg, step |-> step]

Event(type, a, b, out) == [type |-> type, step |-> a, next |-> b, out |-> out]

\* A resume check that runs the target of a post-resume hook too.
do_step_of_runs_target(rs, rs_pre, name) ==
    IF rs # None THEN rs = Some(name) ELSE TRUE

\* "Do this step?": the value of do_step after the resume check at the top
\* of a loop iteration.
do_step_of(rs, rs_pre, name) ==
    IF rs # None
    THEN (IF rs_pre THEN rs = Some(name) ELSE FALSE)
    ELSE TRUE

\* A resume check that never removes the marker of a pre-resume hook.
resume_after_check_keeps(rs, rs_pre, name) == rs

\* resume_step after the resume check at the top of a loop iteration
\* ("Remove resume marker" of a pre-resume hook).
resume_after_check(rs, rs_pre, name) ==
    IF rs # None /\ rs_pre /\ rs = Some(name) THEN None ELSE rs

\* resume_step after the check at the bottom of a loop iteration
\* ("Resuming after" of a post-resume hook).
resume_after_step(rs, rs_pre, name) ==
    IF rs # None /\ ~rs_pre /\ rs = Some(name) THEN None ELSE rs

\* Lifecycle callbacks in which do_pre_steps gets the first step of the
\* sequence instead of the first step to run.
lifecycle_calls_first_of_list(prev, step, idx, lst) ==
    IF prev = NoStep
    THEN <<Event("do_pre_steps", lst[1], NoStep, Unrecorded)>>
    ELSE IF step.name = "pause"
         THEN (IF idx + 1 < Len(lst)
               THEN <<Event("do_between_steps", prev, lst[idx + 2], Unrecorded)>>
               ELSE <<>>)
         ELSE <<Event("do_between_steps", prev, step, Unrecorded)>>

\* Lifecycle callbacks without the test for a step named "pause".
lifecycle_calls_pause_visible(prev, step, idx, lst) ==
    IF prev = NoStep
    THEN <<Event("do_pre_steps", step, NoStep, Unrecorded)>>
    ELSE <<Event("do_between_steps", prev, step, Unrecorded)>>

\* Lifecycle callbacks in which do_between_steps gets its two arguments in
\* the other order.
lifecycle_calls_swapped(prev, step, idx, lst) ==
    IF prev = NoStep
    THEN <<Event("do_pre_steps", step, NoStep, Unrecorded)>>
    ELSE IF step.name = "pause"
         THEN (IF idx + 1 < Len(lst)
               THEN <<Event("do_between_steps", lst[idx + 2], prev, Unrecorded)>>
               ELSE <<>>)
         ELSE <<Event("do_between_steps", step, prev, Unrecorded)>>

\* The lifecycle callback made before step.func: do_pre_steps for the first
\* executed step, else do_between_steps, which leaves out a step named
\* "pause".  idx is the 0-based step_index.
lifecycle_calls(prev, step, idx, lst) ==
    IF prev = NoStep
    THEN <<Event("do_pre_steps", step, NoStep, Unrecorded)>>
    ELSE IF step.name = "pause"
         THEN (IF idx + 1 < Len(lst)
               THEN <<Event("do_between_steps", prev, lst[idx + 2], Unrecorded)>>
               ELSE <<>>)
         ELSE <<Event("do_between_steps", prev, step, Unrecorded)>>

\* A loop that ignores the value a step returns.
step_failed_never(out) == FALSE

\* "if not func_out: return False".
step_failed(out) == out = "false"

\* A loop without the except clause.
step_paused_never(out) == FALSE

\* "except HammerToolPauseException: ... break".
step_paused(out) == out = "pause"

\* step.func(self) raised an exception that the except clause does not
\* catch.
step_raised(out) == out = "raise"

\* A loop without the type assertion on func_out.
is_bool_unchecked(out) == TRUE

\* "assert isinstance(func_out, bool)".
is_bool(out) == out \in {"true", "false"}

\* A ReplaceStep branch without the name assertion.
replacement_name_any(action) == TRUE

\* "assert action.target_name == action.step.name".
replacement_name_ok(action) == action.target_name = action.step.name

\* A resume branch in which a later resume hook overrides an earlier one.
resume_already_set_never(rs) == FALSE

\* "if resume_step is not None" in the resume branch of the hook loop.
resume_already_set(rs) == rs # None

\* ------------------------------------------------------------------------
\* Initial states: a call run_steps(steps, hook_actions)
\* ------------------------------------------------------------------------
Init ==
    /\ steps \in SeqsUpTo(BaseSteps, MaxSteps)
    /\ hook_actions \in SeqsUpTo(HookVals, MaxHooks)
    /\ pc = "check_duplicates"
    /\ names = {}
    /\ new_steps = <<>>
    /\ resume_step = None
    /\ resume_step_pre = TRUE
    /\ hook_index = 0
    /\ step_index = 0
    /\ prev_step = NoStep
    /\ events = <<>>
    /\ log = <<>>
    /\ result = "none"

\* ------------------------------------------------------------------------
\* Actions
\* ------------------------------------------------------------------------
\* A hook loop that stops after its first hook.
AfterHook_first_only == "check_types"

\* Where the hook loop goes after a hook was applied.
AfterHook == IF hook_index + 1 < Len(hook_actions) THEN "hooks" ELSE "check_types"

\* duplicate_free, names = self.check_duplicates(steps); new_steps = list(steps)
CheckDuplicates ==
    /\ pc = "check_duplicates"
    /\ LET r == check_duplicates(steps) IN
        IF ~r.duplicate_free
        THEN /\ log' = Append(log, LogEntry("error", "Duplicate step",
                                            steps[FirstDuplicate(steps)].name))
             /\ result' = "False"
             /\ pc' = "done"
             /\ UNCHANGED <<names, new_steps>>
        ELSE /\ names' = r.names
             /\ new_steps' = steps
             /\ pc' = IF Len(hook_actions) > 0 THEN "hooks" ELSE "check_types"
             /\ UNCHANGED <<log, result>>
    /\ UNCHANGED <<steps, hook_actions, resume_step, resume_step_pre,
                   hook_index, step_index, prev_step, events>>

\* The hook being applied.
action == hook_actions[hook_index + 1]

\* "if not has_step(action.target_name): ... return False"
HookUnknownTarget ==
    /\ pc = "hooks"
    /\ ~has_step(names, action.target_name)
    /\ log' = Append(log, LogEntry("error", "Target step does not exist",
                                   action.target_name))
    /\ result' = "False"
    /\ pc' = "done"
    /\ UNCHANGED <<steps, hook_actions, names, new_steps, resume_step,
                   resume_step_pre, hook_index, step_index, prev_step, events>>

\* HookLocation.ReplaceStep
HookReplace ==
    /\ pc = "hooks"
    /\ has_step(names, action.target_name)
    /\ action.location = ReplaceStep
    /\ LET step_id == step_id_of(new_steps, action.target_name) IN
        IF step_id = -1 \/ action.step = NoStep \/ ~replacement_name_ok(action)
        THEN /\ result' = "AssertionError"
             /\ pc' = "done"
             /\ UNCHANGED <<new_steps, hook_index>>
        ELSE /\ new_steps' = list_set(new_steps, step_id, action.step)
             /\ hook_index' = hook_index + 1
             /\ pc' = AfterHook
             /\ UNCHANGED result
    /\ steps' = caller_steps(steps, new_steps')
    /\ UNCHANGED <<hook_actions, names, resume_step, resume_step_pre,
                   step_index, prev_step, events, log>>

\* HookLocation.InsertPreStep
HookInsertPre ==
    /\ pc = "hooks"
    /\ has_step(names, action.target_name)
    /\ action.location = InsertPreStep
    /\ LET step_id == step_id_of(new_steps, action.target_name) IN
        IF step_id = -1 \/ action.step = NoStep
        THEN /\ result' = "AssertionError"
             /\ pc' = "done"
             /\ UNCHANGED <<new_steps, names, hook_index, log>>
        ELSE IF has_step(names, action.step.name)
        THEN /\ log' = Append(log, LogEntry("error", "New step already exists",
                                            action.step.name))
             /\ result' = "False"
             /\ pc' = "done"
             /\ UNCHANGED <<new_steps, names, hook_index>>
        ELSE /\ new_steps' = list_insert(new_steps, step_id, action.step)
             /\ names' = names \cup {action.step.name}
             /\ hook_index' = hook_index + 1
             /\ pc' = AfterHook
             /\ UNCHANGED <<result, log>>
    /\ steps' = caller_steps(steps, new_steps')
    /\ UNCHANGED <<hook_actions, resume_step, resume_step_pre,
                   step_index, prev_step, events>>

\* HookLocation.InsertPostStep
HookInsertPost ==
    /\ pc = "hooks"
    /\ has_step(names, action.target_name)
    /\ action.location = InsertPostStep
    /\ LET step_id == step_id_of(new_steps, action.target_name) IN
        IF step_id = -1 \/ action.step = NoStep
        THEN /\ result' = "AssertionError"
             /\ pc' = "done"
             /\ UNCHANGED <<new_steps, names, hook_index, log>>
        ELSE IF has_step(names, action.step.name)
        THEN /\ log' = Append(log, LogEntry("error", "New step already exists",
                                            action.step.name))
             /\ result' = "False"
             /\ pc' = "done"
             /\ UNCHANGED <<new_steps, names, hook_index>>
        ELSE /\ new_steps' = list_insert(new_steps, step_id + 1, action.step)
             /\ names' = names \cup {action.step.name}
             /\ hook_index' = hook_index + 1
             /\ pc' = AfterHook
             /\ UNCHANGED <<result, log>>
    /\ steps' = caller_steps(steps, new_steps')
    /\ UNCHANGED <<hook_actions, resume_step, resume_step_pre,
                   step_index, prev_step, events>>

\* HookLocation.ResumePreStep or HookLocation.ResumePostStep
HookResume ==
    /\ pc = "hooks"
    /\ has_step(names, action.target_name)
    /\ action.location \in {ResumePreStep, ResumePostStep}
    /\ IF step_id_of(new_steps, action.target_name) = -1
       THEN /\ result' = "AssertionError"
            /\ pc' = "done"
            /\ UNCHANGED <<resume_step, resume_step_pre, hook_index, log>>
       ELSE IF resume_already_set(resume_step)
       THEN /\ log' = Append(log, LogEntry("error",
                                "More than one resume hook is present", Unrecorded))
            /\ result' = "False"
            /\ pc' = "done"
            /\ UNCHANGED <<resume_step, resume_step_pre, hook_index>>
       ELSE /\ resume_step' = Some(action.target_name)
            /\ resume_step_pre' = (action.location = ResumePreStep)
            /\ hook_index' = hook_index + 1
            /\ pc' = AfterHook
            /\ UNCHANGED <<result, log>>
    /\ UNCHANGED <<steps, hook_actions, names, new_steps, step_index,
                   prev_step, events>>

\* What the body of the type-check loop does for one element: "ok", or the
\* exception it raises.
check_element(element) ==
    IF ~isinstance_HammerToolStep(element) THEN "ValueError"
    ELSE IF ~check_hammer_step_function(element.func) THEN "TypeError"
    ELSE "ok"

\* Position (1-based) of the first element of lst for which the type-check
\* loop raises, 0 if it raises for none.
first_rejected(lst) ==
    IF \E i \in 1..Len(lst) : check_element(lst[i]) # "ok"
    THEN CHOOSE i \in 1..Len(lst) :
            /\ check_element(lst[i]) # "ok"
            /\ \A j \in 1..(i - 1) : check_element(lst[j]) = "ok"
    ELSE 0

\* "Check function types before running": the loop over new_steps raises
\* ValueError at the first element that is not a HammerToolStep and
\* TypeError at the first step whose func has not the signature of a step;
\* the exception leaves run_steps, nothing is logged.
CheckFunctionTypes ==
    /\ pc = "check_types"
    /\ LET i == first_rejected(new_steps) IN
        IF i = 0
        THEN /\ pc' = IF Len(new_steps) > 0 THEN "run" ELSE "post_steps"
             /\ UNCHANGED result
        ELSE /\ pc' = "done"
             /\ result' = check_element(new_steps[i])
    /\ UNCHANGED <<steps, hook_actions, names, new_steps, resume_step,
                   resume_step_pre, hook_index, step_index, prev_step, events,
                   log>>

\* The step of the current loop iteration.
step == new_steps[step_index + 1]

\* Where the step loop goes after an iteration that ran to its end.
AfterStep == IF step_index + 1 < Len(new_steps) THEN "run" ELSE "post_steps"

\* A loop iteration with do_step = False.
SkipStep ==
    /\ pc = "run"
    /\ ~do_step_of(resume_step, resume_step_pre, step.name)
    /\ log' = log \o << LogEntry("debug", "Running sub-step", step.name),
                        LogEntry("info", "Sub-step skipped due to resume hook",
                                 step.name) >>
              \o (IF resume_after_step(resume_step, resume_step_pre, step.name)
                       # resume_step
                  THEN <<LogEntry("info", "Resuming after", step.name)>>
                  ELSE <<>>)
    /\ resume_step' = resume_after_step(resume_step, resume_step_pre, step.name)
    /\ step_index' = step_index + 1
    /\ pc' = AfterStep
    /\ UNCHANGED <<steps, hook_actions, names, new_steps, resume_step_pre,
                   hook_index, prev_step, events, result>>

\* A loop iteration with do_step = True: the lifecycle callback, then
\* step.func(self), whose outcome out the environment decides.
ExecStep ==
    /\ pc = "run"
    /\ do_step_of(resume_step, resume_step_pre, step.name)
    /\ \E out \in FuncOutcomes(step.func) :
        LET rs1 == resume_after_check(resume_step, resume_step_pre, step.name)
            log1 == log \o <<LogEntry("debug", "Running sub-step", step.name)>>
                    \o (IF rs1 # resume_step
                        THEN <<LogEntry("info", "Resuming before", step.name)>>
                        ELSE <<>>)
            ev1 == events
                   \o lifecycle_calls(prev_step, step, step_index, new_steps)
                   \o <<Event("func", step, NoStep, out)>>
        IN
        /\ events' = ev1
        /\ IF step_paused(out)
           THEN \* the exception leaves the try block before prev_step = step
                /\ log' = Append(log1, LogEntry("info",
                                    "Sub-step paused the tool execution", step.name))
                /\ resume_step' = rs1
                /\ pc' = "post_steps"
                /\ UNCHANGED <<prev_step, step_index, result>>
           ELSE IF step_raised(out)
           THEN \* the exception leaves the try block and run_steps
                /\ log' = log1
                /\ resume_step' = rs1
                /\ result' = "Exception"
                /\ pc' = "done"
                /\ UNCHANGED <<prev_step, step_index>>
           ELSE IF ~is_bool(out)
           THEN /\ log' = log1
                /\ prev_step' = step
                /\ resume_step' = rs1
                /\ result' = "AssertionError"
                /\ pc' = "done"
                /\ UNCHANGED step_index
           ELSE IF step_failed(out)
           THEN /\ log' = log1
                /\ prev_step' = step
                /\ resume_step' = rs1
                /\ result' = "False"
                /\ pc' = "done"
                /\ UNCHANGED step_index
           ELSE /\ log' = log1
                       \o (IF resume_after_step(rs1, resume_step_pre, step.name) # rs1
                           THEN <<LogEntry("info", "Resuming after", step.name)>>
                           ELSE <<>>)
                /\ prev_step' = step
                /\ resume_step' = resume_after_step(rs1, resume_step_pre, step.name)
                /\ step_index' = step_index + 1
                /\ pc' = AfterStep
                /\ UNCHANGED result
    /\ UNCHANGED <<steps, hook_actions, names, new_steps, resume_step_pre,
                   hook_index>>

\* An end of run_steps that returns True without calling do_post_steps.
DoPostSteps_silent ==
    /\ pc = "post_steps"
    /\ result' = "True"
    /\ pc' = "done"
    /\ UNCHANGED <<steps, hook_actions, names, new_steps, resume_step,
                   resume_step_pre, hook_index, step_index, prev_step, log,
                   events>>

\* "Run post-steps hook": self.do_post_steps(); return True
DoPostSteps ==
    /\ pc = "post_steps"
    /\ events' = Append(events, Event("do_post_steps", NoStep, NoStep, Unrecorded))
    /\ result' = "True"
    /\ pc' = "done"
    /\ UNCHANGED <<steps, hook_actions, names, new_steps, resume_step,
                   resume_step_pre, hook_index, step_index, prev_step, log>>

Next ==
    \/ CheckDuplicates
    \/ HookUnknownTarget
    \/ HookReplace
    \/ HookInsertPre
    \/ HookInsertPost
    \/ HookResume
    \/ CheckFunctionTypes
    \/ SkipStep
    \/ ExecStep
    \/ DoPostSteps

Spec == Init /\ [][Next]_vars

\* ------------------------------------------------------------------------
\* Observations of a call
\* ------------------------------------------------------------------------
TypeOK ==
    /\ pc \in {"check_duplicates", "hooks", "check_types", "run",
               "post_steps", "done", "build", "run_done"}
    /\ result \in {"none", "True", "False", "AssertionError", "ValueError",
                  "TypeError", "AttributeError", "Exception",
                  "HammerToolPauseException"}
    /\ (pc \in {"done", "run_done"}) = (result # "none")

IsFunc(e) == e.type = "func"

\* The calls step.func(self) made so far, in order.
FuncEvents == SelectSeq(events, IsFunc)

\* The steps whose action was invoked so far, in order.
Executed == [i \in 1..Len(FuncEvents) |-> FuncEvents[i].step]

\* The names of the steps of a list, in order.
NamesOf(lst) == [i \in 1..Len(lst) |-> lst[i].name]

IsPrefix(s, t) == Len(s) <= Len(t) /\ \A i \in 1..Len(s) : s[i] = t[i]

\* The part of lst from 1-based position i on.
Suffix(lst, i) == SubSeq(lst, i, Len(lst))

\* Position (1-based) of the step named n in lst, 0 if there is none.
PosOf(lst, n) ==
    IF \E i \in 1..Len(lst) : lst[i].name = n
    THEN CHOOSE i \in 1..Len(lst) :
            lst[i].name = n /\ \A j \in 1..(i - 1) : lst[j].name # n
    ELSE 0

\* Two steps of lst have the same name.
HasDuplicateNames(lst) ==
    \E i, j \in 1..Len(lst) : i < j /\ lst[i].name = lst[j].name

BaseNameSet == {steps[i].name : i \in 1..Len(steps)}

\* Every step function called so far returned True.
AllReturnedTrue == \A i \in 1..Len(FuncEvents) : FuncEvents[i].out = "true"

\* Every step function called so far returned a boolean.
AllReturnedBool ==
    \A i \in 1..Len(FuncEvents) : FuncEvents[i].out \in {"true", "false"}

\* The call returned True after a run in which no step failed or paused.
Completed == pc = "done" /\ result = "True" /\ AllReturnedTrue

\* The hook list is exactly one resume hook of the given location whose
\* target is a step of a duplicate-free base list.
SingleResume(location) ==
    /\ Len(hook_actions) = 1
    /\ hook_actions[1].location = location
    /\ hook_actions[1].target_name \in BaseNameSet
    /\ ~HasDuplicateNames(steps)

ABC == << make_step_from_method(bound_method("a"), ""),
          make_step_from_method(bound_method("b"), ""),
          make_step_from_method(bound_method("c"), "") >>

\* ------------------------------------------------------------------------
\* Claims
\* ------------------------------------------------------------------------

\* C1 (as stated): with a single ResumePostStep hook on step t, no step
\* before t is invoked, and a run in which every invoked action returns True
\* invokes t and every step after t, in order.
C1_AsStated ==
    SingleResume(ResumePostStep) =>
        LET t == PosOf(steps, hook_actions[1].target_name) IN
        /\ IsPrefix(Executed, Suffix(steps, t))
        /\ (Completed => Executed = Suffix(steps, t))

\* C1 (amended): with a single ResumePostStep hook on step t, neither t nor
\* any step before t is ever invoked, and a run in which every invoked action
\* returns True invokes exactly the steps after t, in order.
C1_ResumePostRunsAfterTarget ==
    SingleResume(ResumePostStep) =>
        LET t == PosOf(steps, hook_actions[1].target_name) IN
        /\ IsPrefix(Executed, Suffix(steps, t + 1))
        /\ (Completed => Executed = Suffix(steps, t + 1))

\* ResumePostStep(b) on [a, b, c] ran to the end and invoked only c.
C1_Witness ==
    /\ steps = ABC
    /\ hook_actions = <<make_post_resume_hook("b")>>
    /\ Completed
    /\ NamesOf(Executed) = <<"c">>

\* C2: with a single ResumePreStep hook on step t, no step before t is ever
\* invoked, the invoked steps are t and its successors in sequence order, and
\* a run in which every invoked action returns True invokes all of them.
C2_ResumePreRunsFromTarget ==
    SingleResume(ResumePreStep) =>
        LET t == PosOf(steps, hook_actions[1].target_name) IN
        /\ IsPrefix(Executed, Suffix(steps, t))
        /\ (Completed => Executed = Suffix(steps, t))

\* ResumePreStep(b) on [a, b, c] ran to the end and invoked b, c.
C2_Witness ==
    /\ steps = ABC
    /\ hook_actions = <<make_pre_resume_hook("b")>>
    /\ Completed
    /\ NamesOf(Executed) = <<"b", "c">>

\* C3: with distinct names, no hooks and actions that return booleans, the
\* actions are invoked in list order, each at most once, none after the
\* first that returns False, and the call returns True iff every action of
\* the list was invoked and returned True (False otherwise).
C3_NoHooksRunsInOrder ==
    (hook_actions = <<>> /\ ~HasDuplicateNames(steps) /\ AllReturnedBool) =>
        /\ IsPrefix(Executed, steps)
        /\ \A i \in 1..(Len(FuncEvents) - 1) : FuncEvents[i].out = "true"
        /\ (pc = "done" =>
              /\ result \in {"True", "False"}
              /\ (result = "True") =
                    (Len(FuncEvents) = Len(steps) /\ AllReturnedTrue))

\* [a, b, c] without hooks: a returned True, b returned False, c never ran.
C3_Witness ==
    /\ steps = ABC
    /\ hook_actions = <<>>
    /\ pc = "done"
    /\ result = "False"
    /\ NamesOf(Executed) = <<"a", "b">>
    /\ FuncEvents[1].out = "true"
    /\ FuncEvents[2].out = "false"

\* C4: a step action that returned False is the last call of the run: no
\* later step action, no later do_between_steps and no do_post_steps follow
\* it, and the call has returned False.
C4_FailureStopsRun ==
    \A i \in 1..Len(events) :
        (events[i].type = "func" /\ events[i].out = "false") =>
            /\ i = Len(events)
            /\ pc = "done"
            /\ result = "False"

\* The second executed step of a longer sequence returned False.
C4_Witness ==
    /\ pc = "done"
    /\ result = "False"
    /\ Len(FuncEvents) >= 2
    /\ events[Len(events)].out = "false"
    /\ step_index + 1 < Len(new_steps)

\* The 1-based position in new_steps of the first step the resume hook (if
\* any) lets run, computed from the hook list.
FirstToRun ==
    LET rs == {i \in 1..Len(hook_actions) :
                  hook_actions[i].location \in {ResumePreStep, ResumePostStep}}
    IN  IF rs = {} THEN 1
        ELSE LET h == hook_actions[CHOOSE i \in rs : TRUE]
             IN  PosOf(new_steps, h.target_name)
                 + (IF h.location = ResumePreStep THEN 0 ELSE 1)

\* C5: when a step action raises the pause signal, the invoked steps are
\* exactly the non-skipped steps up to and including the pausing one, no
\* step action is invoked afterwards, and the call ends by returning True
\* (the signal does not leave run_steps).
C5_PauseStopsRunWithSuccess ==
    \A i \in 1..Len(events) :
        (events[i].type = "func" /\ events[i].out = "pause") =>
            /\ \A j \in (i + 1)..Len(events) : events[j].type = "do_post_steps"
            /\ Executed = SubSeq(new_steps, FirstToRun, step_index + 1)
            /\ result \in {"none", "True"}
            /\ pc \in {"post_steps", "done"}
            /\ (pc = "done" => result = "True")

\* A step paused after an earlier step had run and before a later one.
C5_Witness ==
    /\ pc = "done"
    /\ result = "True"
    /\ Len(FuncEvents) >= 2
    /\ FuncEvents[Len(FuncEvents)].out = "pause"
    /\ step_index + 1 < Len(new_steps)

\* C6: for a base list with two steps of the same name, and any hook list,
\* no hook is processed, no step action or lifecycle callback is invoked, and
\* the call returns False.
C6_DuplicateBaseRejected ==
    HasDuplicateNames(steps) =>
        /\ events = <<>>
        /\ hook_index = 0
        /\ new_steps = <<>>
        /\ names = {}
        /\ resume_step = None
        /\ pc \in {"check_duplicates", "done"}
        /\ (pc = "done" => result = "False")

\* A list with a repeated name and a non-empty hook list was rejected.
C6_Witness ==
    /\ HasDuplicateNames(steps)
    /\ Len(hook_actions) > 0
    /\ pc = "done"
    /\ result = "False"

\* The hook list is exactly one insertion hook of a fresh name on a step of
\* a duplicate-free base list, and it has been applied.
SingleInsertApplied ==
    /\ Len(hook_actions) = 1
    /\ hook_actions[1].location \in {InsertPreStep, InsertPostStep}
    /\ hook_actions[1].target_name \in BaseNameSet
    /\ hook_actions[1].step.name \notin BaseNameSet
    /\ ~HasDuplicateNames(steps)
    /\ pc \notin {"check_duplicates", "hooks"}

IsBaseStep(s) == s.name \in BaseNameSet

\* C7: a single InsertPostStep(t, x) with a fresh name puts x immediately
\* after t, a single InsertPreStep(t, y) puts y immediately before t; the
\* base steps keep their relative order, the length grows by one, and the
\* steps are executed in that order.
C7_SingleInsertPosition ==
    SingleInsertApplied =>
        LET h == hook_actions[1]
            t == PosOf(new_steps, h.target_name)
        IN
        /\ Len(new_steps) = Len(steps) + 1
        /\ SelectSeq(new_steps, IsBaseStep) = steps
        /\ (h.location = InsertPostStep => new_steps[t + 1] = h.step)
        /\ (h.location = InsertPreStep => t > 1 /\ new_steps[t - 1] = h.step)
        /\ IsPrefix(Executed, new_steps)
        /\ (Completed => Executed = new_steps)

\* InsertPreStep(c, y) on [a, b, c] ran to the end as a, b, y, c.
C7_Witness ==
    /\ steps = ABC
    /\ hook_actions = <<make_pre_insertion_hook("c", step_function("y"))>>
    /\ Completed
    /\ NamesOf(Executed) = <<"a", "b", "y", "c">>

\* The hook list is two InsertPostStep hooks of distinct fresh names on the
\* same step of a duplicate-free base list, and both have been applied.
TwoPostInsertsApplied ==
    /\ Len(hook_actions) = 2
    /\ hook_actions[1].location = InsertPostStep
    /\ hook_actions[2].location = InsertPostStep
    /\ hook_actions[1].target_name = hook_actions[2].target_name
    /\ hook_actions[1].target_name \in BaseNameSet
    /\ hook_actions[1].step.name \notin BaseNameSet
    /\ hook_actions[2].step.name \notin BaseNameSet
    /\ hook_actions[1].step.name # hook_actions[2].step.name
    /\ ~HasDuplicateNames(steps)
    /\ pc \notin {"check_duplicates", "hooks"}

\* C8 (as stated): two InsertPostStep hooks on t with payloads x then y give
\* t, x, y consecutively.
C8_AsStated ==
    TwoPostInsertsApplied =>
        LET t == PosOf(new_steps, hook_actions[1].target_name) IN
        /\ Len(new_steps) = Len(steps) + 2
        /\ new_steps[t + 1] = hook_actions[1].step
        /\ new_steps[t + 2] = hook_actions[2].step

\* C8 (amended): two InsertPostStep hooks on t with payloads x then y give
\* t, y, x consecutively: the later hook's step lands immediately after t,
\* ahead of the earlier hook's step.
C8_LaterPostInsertLandsFirst ==
    TwoPostInsertsApplied =>
        LET t == PosOf(new_steps, hook_actions[1].target_name) IN
        /\ Len(new_steps) = Len(steps) + 2
        /\ new_steps[t + 1] = hook_actions[2].step
        /\ new_steps[t + 2] = hook_actions[1].step

\* InsertPostStep(a, x) then InsertPostStep(a, y) on [a, b, c] gave
\* a, y, x, b, c.
C8_Witness ==
    /\ steps = ABC
    /\ hook_actions = << make_post_insertion_hook("a", step_function("x")),
                         make_post_insertion_hook("a", step_function("y")) >>
    /\ pc = "done"
    /\ NamesOf(new_steps) = <<"a", "y", "x", "b", "c">>

IsResumeHook(h) == h.location \in {ResumePreStep, ResumePostStep}

\* A ReplaceStep action whose step is not named like its target.
IsMismatchedReplace(h) ==
    h.location = ReplaceStep /\ h.step.name # h.target_name

\* C10: a hook list with a ReplaceStep hook whose step name differs from its
\* target never leads to a step action or a lifecycle callback, and the call
\* does not return True.
C10_MismatchedReplaceRejected ==
    (SelectSeq(hook_actions, IsMismatchedReplace) # <<>>) =>
        /\ events = <<>>
        /\ pc \in {"check_duplicates", "hooks", "done"}
        /\ result # "True"

\* The mismatched ReplaceStep hook was reached, after a valid hook, and
\* stopped the call.
C10_Witness ==
    /\ steps = ABC
    /\ Len(hook_actions) = 2
    /\ IsMismatchedReplace(hook_actions[2])
    /\ hook_index = 1
    /\ pc = "done"
    /\ result = "AssertionError"

\* The call ended in validation: check_duplicates failed, or the hook loop
\* stopped at a hook before the end of the hook list.
ValidationError ==
    pc = "done" /\ (HasDuplicateNames(steps) \/ hook_index < Len(hook_actions))

\* The hook at which the hook loop stands.
CurrentHook == hook_actions[hook_index + 1]

\* The validation error is the name assertion of a ReplaceStep hook.
MismatchDetected ==
    /\ ~HasDuplicateNames(steps)
    /\ CurrentHook.target_name \in names
    /\ IsMismatchedReplace(CurrentHook)

\* The message and the name a validation error is logged with.
ExpectedErrorEntry ==
    IF HasDuplicateNames(steps)
    THEN [level |-> "error", msg |-> "Duplicate step",
          step |-> steps[FirstDuplicate(steps)].name]
    ELSE IF CurrentHook.target_name \notin names
    THEN [level |-> "error", msg |-> "Target step does not exist",
          step |-> CurrentHook.target_name]
    ELSE IF CurrentHook.location \in {InsertPreStep, InsertPostStep}
    THEN [level |-> "error", msg |-> "New step already exists",
          step |-> CurrentHook.step.name]
    ELSE [level |-> "error", msg |-> "More than one resume hook is present",
          step |-> Unrecorded]

\* C11 (as stated): every validation error is logged at error level and
\* makes the call return False.
C11_AsStated ==
    ValidationError =>
        /\ result = "False"
        /\ log # <<>>
        /\ log[Len(log)].level = "error"

\* C11 (amended): a duplicate base name, an unknown hook target, an inserted
\* name already present and a second resume hook are each logged once at
\* error level, with the name concerned, and make the call return False; a
\* ReplaceStep name mismatch is not logged and raises AssertionError.
C11_ValidationErrorsReported ==
    ValidationError =>
        IF MismatchDetected
        THEN result = "AssertionError" /\ log = <<>>
        ELSE result = "False" /\ log = <<ExpectedErrorEntry>>

\* A mismatched ReplaceStep hook on an existing target ended the call with
\* an AssertionError and an empty log.
C11_Witness ==
    /\ ValidationError
    /\ MismatchDetected
    /\ hook_index = 1
    /\ result = "AssertionError"
    /\ log = <<>>

\* C12 (as stated): when a step action returns False, an error-level log
\* entry naming the failing step is emitted before False is returned.
C12_AsStated ==
    \A i \in 1..Len(events) :
        (events[i].type = "func" /\ events[i].out = "false") =>
            \E j \in 1..Len(log) :
                log[j].level = "error" /\ log[j].step = events[i].step.name

\* C12 (amended): when a step action returns False, run_steps returns False
\* without any error-level log entry; the last entry of the log is the debug
\* entry "Running sub-step" or the info entry "Resuming before" of the
\* failing step.
C12_StepFailureNotLogged ==
    \A i \in 1..Len(events) :
        (events[i].type = "func" /\ events[i].out = "false") =>
            /\ result = "False"
            /\ \A j \in 1..Len(log) : log[j].level \in {"debug", "info"}
            /\ log[Len(log)].step = events[i].step.name
            /\ log[Len(log)].msg \in {"Running sub-step", "Resuming before"}

\* The second executed step returned False and the log holds no error.
C12_Witness ==
    /\ pc = "done"
    /\ result = "False"
    /\ Len(FuncEvents) >= 2
    /\ events[Len(events)].out = "false"
    /\ \A j \in 1..Len(log) : log[j].level # "error"

\* C13: validation is all-or-nothing: once a step action or a lifecycle
\* callback has been invoked, the base list was duplicate-free and every
\* hook of the list has been applied; a call that ends in validation, at any
\* hook and after any number of applied hooks, has invoked none.
C13_ValidationAllOrNothing ==
    /\ (events # <<>> =>
            /\ ~HasDuplicateNames(steps)
            /\ hook_index = Len(hook_actions)
            /\ pc \in {"run", "post_steps", "done"})
    /\ (ValidationError => events = <<>>)

\* The first hook changed the step list, the second one was rejected, and
\* nothing was invoked.
C13_Witness ==
    /\ ValidationError
    /\ Len(hook_actions) = 2
    /\ hook_index = 1
    /\ new_steps # steps
    /\ result = "False"
    /\ events = <<>>

\* The call passed validation: the base list is duplicate-free and every
\* hook was applied.
Validated ==
    /\ ~HasDuplicateNames(steps)
    /\ hook_index = Len(hook_actions)
    /\ pc \notin {"check_duplicates", "hooks"}

IsPostSteps(e) == e.type = "do_post_steps"

IsPreSteps(e) == e.type = "do_pre_steps"

IsLifecycle(e) == e.type \in {"do_pre_steps", "do_between_steps"}

\* The outcome of the last step action invoked, if there is one.
LastOutcome ==
    IF FuncEvents = <<>> THEN Unrecorded ELSE FuncEvents[Len(FuncEvents)].out

\* C17: in a run that passed validation, do_post_steps is invoked exactly
\* once if the run ends by completing all steps or by a pause, and not at
\* all if it ends because a step returned False; it is never invoked before
\* the end of the step loop, and when invoked it is the last call of the run.
C17_PostStepsOnce ==
    LET n == Len(SelectSeq(events, IsPostSteps)) IN
    /\ (pc # "done" => n = 0)
    /\ (n > 0 => events[Len(events)].type = "do_post_steps")
    /\ (pc = "done" /\ Validated =>
            /\ (LastOutcome = "pause" \/ step_index = Len(new_steps)) => n = 1
            /\ LastOutcome = "false" => n = 0
            /\ (result = "True") = (n = 1))

\* A run that ended by a pause after two step actions called do_post_steps
\* once, as its last call.
C17_Witness ==
    /\ pc = "done"
    /\ Validated
    /\ LastOutcome = "pause"
    /\ Len(FuncEvents) >= 2
    /\ step_index + 1 < Len(new_steps)
    /\ Len(SelectSeq(events, IsPostSteps)) = 1
    /\ events[Len(events)].type = "do_post_steps"

\* C18: in a run in which a step action is invoked, do_pre_steps is invoked
\* exactly once, as the first call of the run, with the first non-skipped
\* step (the target of a pre-resume hook when there is one); in a run that
\* invokes no step action it is not invoked.
C18_PreStepsOnceWithFirstRunStep ==
    LET n == Len(SelectSeq(events, IsPreSteps)) IN
    IF FuncEvents = <<>>
    THEN n = 0
    ELSE /\ n = 1
         /\ events[1].type = "do_pre_steps"
         /\ events[1].step = FuncEvents[1].step
         /\ events[1].step = new_steps[FirstToRun]

\* ResumePreStep(b) on [a, b, c]: do_pre_steps got b, and b and c ran.
C18_Witness ==
    /\ steps = ABC
    /\ hook_actions = <<make_pre_resume_hook("b")>>
    /\ pc = "done"
    /\ NamesOf(Executed) = <<"b", "c">>
    /\ events[1] = Event("do_pre_steps", make_step_from_method(bound_method("b"), ""), NoStep, Unrecorded)

\* The step a pause hook inserts.
PauseHookStep == make_pre_pause_hook("a").step

\* C19: no lifecycle callback (do_pre_steps, or do_between_steps as prev or
\* next) ever receives the step inserted by a pause hook.
C19_PauseStepHiddenFromCallbacks ==
    \A i \in 1..Len(events) :
        IsLifecycle(events[i]) =>
            events[i].step # PauseHookStep /\ events[i].next # PauseHookStep

\* The hook list starts with the removal hook of a step of a duplicate-free
\* base list, and that hook has been applied.
RemovalApplied ==
    /\ Len(hook_actions) >= 1
    /\ hook_actions[1] = make_removal_hook(hook_actions[1].target_name)
    /\ hook_actions[1].target_name \in BaseNameSet
    /\ ~HasDuplicateNames(steps)
    /\ hook_index >= 1

\* C20: a removal hook for s keeps a step named s at the same position with
\* an action that returns True: the original action of s is never invoked,
\* the other steps are unchanged and run in their order, s's step always
\* succeeds, and s stays a known target for a later hook of the list.
C20_RemovalKeepsName ==
    RemovalApplied =>
        LET s == hook_actions[1].target_name
            p == PosOf(steps, s)
        IN
        /\ s \in names
        /\ PosOf(new_steps, s) # 0
        /\ \A i \in 1..Len(FuncEvents) :
              /\ FuncEvents[i].step # steps[p]
              /\ (FuncEvents[i].step.name = s /\ FuncEvents[i].step.func = dummy_step
                    => FuncEvents[i].out = "true")
        /\ (Len(hook_actions) = 1 =>
              /\ NamesOf(new_steps) = NamesOf(steps)
              /\ new_steps[p].func = dummy_step
              /\ \A i \in 1..Len(steps) : i # p => new_steps[i] = steps[i]
              /\ IsPrefix(Executed, new_steps)
              /\ (Completed => Executed = new_steps))
        /\ (Len(hook_actions) = 2 /\ hook_actions[2].target_name = s
            /\ pc = "done" /\ hook_index = 1
              => IsMismatchedReplace(hook_actions[2]))

\* The removal hook of b on [a, b, c], followed by a resume hook on b: both
\* hooks were applied, and the no-op b and c ran.
C20_Witness ==
    /\ steps = ABC
    /\ hook_actions = <<make_removal_hook("b"), make_pre_resume_hook("b")>>
    /\ Completed
    /\ NamesOf(new_steps) = <<"a", "b", "c">>
    /\ Executed = << make_step_from_function(dummy_step, "b"),
                     make_step_from_method(bound_method("c"), "") >>

\* ------------------------------------------------------------------------
\* Calls run_steps(steps, make_from_to_hooks(from_step, to_step))
\* ------------------------------------------------------------------------
\* The arguments of make_from_to_hooks: a step name or None.
FromToArgs == {Some(n) : n \in BaseNames} \cup {None}

InitFromTo ==
    /\ steps \in SeqsUpTo(BaseSteps, MaxSteps)
    /\ hook_actions \in {make_from_to_hooks(f, t) : f \in FromToArgs, t \in FromToArgs}
    /\ pc = "check_duplicates"
    /\ names = {}
    /\ new_steps = <<>>
    /\ resume_step = None
    /\ resume_step_pre = TRUE
    /\ hook_index = 0
    /\ step_index = 0
    /\ prev_step = NoStep
    /\ events = <<>>
    /\ log = <<>>
    /\ result = "none"

\* The parts of run_steps such a call can reach.
NextFromTo ==
    \/ CheckDuplicates
    \/ HookUnknownTarget
    \/ HookInsertPost
    \/ HookResume
    \/ CheckFunctionTypes
    \/ SkipStep
    \/ ExecStep
    \/ DoPostSteps

SpecFromTo == InitFromTo /\ [][NextFromTo]_vars

\* The steps of the base list whose action was invoked so far, in order.
BaseExecuted == SelectSeq(Executed, IsBaseStep)

\* Every action of a base step called so far returned True.
BaseAllTrue ==
    \A i \in 1..Len(FuncEvents) :
        IsBaseStep(FuncEvents[i].step) => FuncEvents[i].out = "true"

\* C14: with only from_step = s, the steps invoked are s and its successors,
\* in order (all of them when each returns True); with only to_step = s,
\* the base steps invoked are those up to and including s (all of them when
\* each returns True, and then the call returns True); with neither
\* argument the hook list is empty.
C14_FromOnlyToOnly ==
    /\ make_from_to_hooks(None, None) = <<>>
    /\ \A s \in BaseNameSet :
        ~HasDuplicateNames(steps) =>
            /\ (hook_actions = make_from_to_hooks(Some(s), None) =>
                  /\ IsPrefix(Executed, Suffix(steps, PosOf(steps, s)))
                  /\ (Completed => Executed = Suffix(steps, PosOf(steps, s))))
            /\ (hook_actions = make_from_to_hooks(None, Some(s)) =>
                  /\ IsPrefix(BaseExecuted, SubSeq(steps, 1, PosOf(steps, s)))
                  /\ (pc = "done" /\ BaseAllTrue =>
                        /\ result = "True"
                        /\ BaseExecuted = SubSeq(steps, 1, PosOf(steps, s))))

\* make_from_to_hooks(None, "b") on [a, b, c] ran a and b, paused and
\* returned True.
C14_Witness ==
    /\ steps = ABC
    /\ hook_actions = make_from_to_hooks(None, Some("b"))
    /\ pc = "done"
    /\ result = "True"
    /\ NamesOf(Executed) = <<"a", "b", "pause">>

\* C15: with from_step = f at or before to_step = t, the base steps invoked
\* are those from f to t inclusive, in order (only f when f = t); when each
\* of them returns True all of them are invoked and the call returns True.
C15_FromToRange ==
    \A f, t \in BaseNameSet :
        (/\ ~HasDuplicateNames(steps)
         /\ hook_actions = make_from_to_hooks(Some(f), Some(t))
         /\ PosOf(steps, f) <= PosOf(steps, t)) =>
            LET range == SubSeq(steps, PosOf(steps, f), PosOf(steps, t)) IN
            /\ IsPrefix(BaseExecuted, range)
            /\ (pc = "done" /\ BaseAllTrue =>
                  /\ result = "True"
                  /\ BaseExecuted = range
                  /\ Executed = Append(range, PauseHookStep))

\* make_from_to_hooks(Some("b"), Some("b")) on [a, b, c] ran only b, paused and returned
\* True.
C15_Witness ==
    /\ steps = ABC
    /\ hook_actions = make_from_to_hooks(Some("b"), Some("b"))
    /\ pc = "done"
    /\ result = "True"
    /\ NamesOf(Executed) = <<"b", "pause">>

\* ------------------------------------------------------------------------
\* Pause, then resume: two calls of run_steps on the same base list
\* ------------------------------------------------------------------------
InitRoundTrip ==
    /\ steps \in SeqsUpTo(BaseSteps, MaxSteps)
    /\ hook_actions \in {<<make_pre_pause_hook(s)>> : s \in BaseNames}
                        \cup {<<make_post_pause_hook(s)>> : s \in BaseNames}
    /\ pc = "check_duplicates"
    /\ names = {}
    /\ new_steps = <<>>
    /\ resume_step = None
    /\ resume_step_pre = TRUE
    /\ hook_index = 0
    /\ step_index = 0
    /\ prev_step = NoStep
    /\ events = <<>>
    /\ log = <<>>
    /\ result = "none"

\* The caller, after the call with a pause hook on s has ended, calls
\* run_steps again with the same base list and the matching resume hook on
\* s.  The end of the first call is recorded in events with its result.
ResumeCall ==
    /\ pc = "done"
    /\ Len(hook_actions) = 1
    /\ hook_actions[1].location \in {InsertPreStep, InsertPostStep}
    /\ hook_actions' =
          IF hook_actions[1].location = InsertPreStep
          THEN <<make_pre_resume_hook(hook_actions[1].target_name)>>
          ELSE <<make_post_resume_hook(hook_actions[1].target_name)>>
    /\ events' = Append(events, Event("return", NoStep, NoStep, result))
    /\ pc' = "check_duplicates"
    /\ names' = {}
    /\ new_steps' = <<>>
    /\ resume_step' = None
    /\ resume_step_pre' = TRUE
    /\ hook_index' = 0
    /\ step_index' = 0
    /\ prev_step' = NoStep
    /\ result' = "none"
    /\ UNCHANGED <<steps, log>>

NextRoundTrip ==
    \/ CheckDuplicates
    \/ HookUnknownTarget
    \/ HookInsertPre
    \/ HookInsertPost
    \/ HookResume
    \/ CheckFunctionTypes
    \/ SkipStep
    \/ ExecStep
    \/ DoPostSteps
    \/ ResumeCall

SpecRoundTrip == InitRoundTrip /\ [][NextRoundTrip]_vars

IsReturn(e) == e.type = "return"

\* The recorded ends of earlier calls.
Returns == SelectSeq(events, IsReturn)

\* C16: for a duplicate-free base list and a step s of it, a call with only
\* a pre-pause (post-pause) hook on s followed by a call with only a
\* pre-resume (post-resume) hook on s, in which every base action invoked
\* returns True, never invoke a base step out of order or twice, and
\* together invoke every base step exactly once, in base order, and both
\* return True.
C16_PauseResumeRoundTrip ==
    (/\ ~HasDuplicateNames(steps)
     /\ hook_actions[1].target_name \in BaseNameSet
     /\ BaseAllTrue) =>
        /\ IsPrefix(BaseExecuted, steps)
        /\ (pc = "done" /\ Returns # <<>> =>
              /\ Len(Returns) = 1
              /\ Returns[1].out = "True"
              /\ result = "True"
              /\ BaseExecuted = steps)

\* Post-pause and post-resume on b of [a, b, c]: the first call ran a and b
\* and paused, the second ran c.
C16_Witness ==
    /\ steps = ABC
    /\ hook_actions = <<make_post_resume_hook("b")>>
    /\ pc = "done"
    /\ result = "True"
    /\ Returns = <<Event("return", NoStep, NoStep, "True")>>
    /\ NamesOf(Executed) = <<"a", "b", "pause", "c">>


\* ------------------------------------------------------------------------
\* The hook factories called on their own
\* ------------------------------------------------------------------------
\* The members of hooks.HookLocation.
HookLocation ==
    {ReplaceStep, InsertPreStep, InsertPostStep, ResumePreStep, ResumePostStep}

\* Target names a caller passes to the factories.
FactoryTargets == {"a", "x"}

\* Functions a caller passes to make_insertion_hook: step functions, a bound
\* method of the tool, functions of another signature and a value that is
\* not callable.
FactoryFuncs ==
    HookFuncs \cup {bound_method("a"), untyped, wrongret, not_callable}

\* What a caller passes to make_step_from_method: methods of the tool, a
\* function that is not a method and a value that is not callable, with or
\* without a name.
MethodArgs ==
    {bound_method("a"), badmethod, annself, step_function("x"), not_callable}
StepNames == {"", "z"}

\* A call of a factory: its name, its arguments and what it returned (the
\* exception when it raised).
FactoryCall(type, args, out) == [type |-> type, args |-> args, out |-> out]

\* A caller that builds a hook list with make_insertion_hook and
\* make_resume_hook, after a step list with make_step_from_method, one call
\* at a time; a raised exception ends it.
InitFactory ==
    /\ steps = <<>>
    /\ hook_actions = <<>>
    /\ pc = "build"
    /\ names = {}
    /\ new_steps = <<>>
    /\ resume_step = None
    /\ resume_step_pre = TRUE
    /\ hook_index = 0
    /\ step_index = 0
    /\ prev_step = NoStep
    /\ events = <<>>
    /\ log = <<>>
    /\ result = "none"

\* hook = HammerTool.make_insertion_hook(step, location, func)
CallMakeInsertionHook ==
    /\ pc = "build"
    /\ Len(hook_actions) < MaxHooks
    /\ \E t \in FactoryTargets, location \in HookLocation, func \in FactoryFuncs :
        LET out == make_insertion_hook(t, location, func) IN
        /\ events' = Append(events, FactoryCall("make_insertion_hook",
                                                <<t, location, func>>, out))
        /\ IF raised(out)
           THEN /\ result' = out.raised
                /\ pc' = "done"
                /\ UNCHANGED hook_actions
           ELSE /\ hook_actions' = Append(hook_actions, out)
                /\ UNCHANGED <<result, pc>>
    /\ UNCHANGED <<steps, names, new_steps, resume_step, resume_step_pre,
                   hook_index, step_index, prev_step, log>>

\* hook = HammerTool.make_resume_hook(step, location)
CallMakeResumeHook ==
    /\ pc = "build"
    /\ Len(hook_actions) < MaxHooks
    /\ \E t \in FactoryTargets, location \in HookLocation :
        LET out == make_resume_hook(t, location) IN
        /\ events' = Append(events, FactoryCall("make_resume_hook",
                                                <<t, location>>, out))
        /\ IF raised(out)
           THEN /\ result' = out.raised
                /\ pc' = "done"
                /\ UNCHANGED hook_actions
           ELSE /\ hook_actions' = Append(hook_actions, out)
                /\ UNCHANGED <<result, pc>>
    /\ UNCHANGED <<steps, names, new_steps, resume_step, resume_step_pre,
                   hook_index, step_index, prev_step, log>>

\* step = HammerTool.make_step_from_method(func, name)
CallMakeStepFromMethod ==
    /\ pc = "build"
    /\ hook_actions = <<>>
    /\ Len(steps) < MaxSteps
    /\ \E name \in StepNames, func \in MethodArgs :
        LET out == make_step_from_method(func, name) IN
        /\ events' = Append(events, FactoryCall("make_step_from_method",
                                                <<name, func>>, out))
        /\ IF raised(out)
           THEN /\ result' = out.raised
                /\ pc' = "done"
                /\ UNCHANGED steps
           ELSE /\ steps' = Append(steps, out)
                /\ UNCHANGED <<result, pc>>
    /\ UNCHANGED <<hook_actions, names, new_steps, resume_step,
                   resume_step_pre, hook_index, step_index, prev_step, log>>

NextFactory ==
    CallMakeInsertionHook \/ CallMakeResumeHook \/ CallMakeStepFromMethod

SpecFactory == InitFactory /\ [][NextFactory]_vars

\* The hooks returned by the factory calls made so far, in order.
IsBuilt(e) == e.type # "make_step_from_method" /\ ~raised(e.out)
BuiltHooks ==
    LET ok == SelectSeq(events, IsBuilt) IN [i \in 1..Len(ok) |-> ok[i].out]

\* C21: make_insertion_hook raises for every location other than
\* InsertPreStep/InsertPostStep and make_resume_hook for every location other
\* than ResumePreStep/ResumePostStep, and a call that raised built no hook;
\* for an accepted location the hook carries the given target and location,
\* with a step (of the given function) for an insertion and no step for a
\* resume. An insertion with an accepted location raises only for a function
\* that is not a step function (a bound method, a wrong signature).
C21_FactoriesValidateLocation ==
    /\ hook_actions = BuiltHooks
    /\ \A i \in 1..Len(events) :
        LET e == events[i]
            target == e.args[1]
            location == e.args[2]
        IN  /\ e.type = "make_insertion_hook" =>
                IF location \in {InsertPreStep, InsertPostStep}
                THEN IF raised(e.out)
                     THEN e.args[3] \notin HookFuncs
                     ELSE /\ e.args[3] \in HookFuncs
                          /\ e.out.target_name = target
                          /\ e.out.location = location
                          /\ e.out.step # NoStep
                          /\ e.out.step.func = e.args[3]
                ELSE e.out = ValueError
            /\ e.type = "make_resume_hook" =>
                IF location \in {ResumePreStep, ResumePostStep}
                THEN /\ ~raised(e.out)
                     /\ e.out.target_name = target
                     /\ e.out.location = location
                     /\ e.out.step = NoStep
                ELSE e.out = ValueError

\* An accepted resume hook, then an insertion with a resume location, which
\* raised and added nothing to the list.
C21_Witness ==
    /\ pc = "done"
    /\ result = "ValueError"
    /\ Len(events) = 2
    /\ events[1].type = "make_resume_hook"
    /\ events[2].type = "make_insertion_hook"
    /\ events[2].args[2] = ResumePostStep
    /\ hook_actions = <<make_post_resume_hook("a")>>

\* ------------------------------------------------------------------------
\* Claims on hook targets and on the mutated sequence
\* ------------------------------------------------------------------------
IsInsertion(h) == h.location \in {InsertPreStep, InsertPostStep}

\* The names known once the first n hooks are applied: the base names and
\* the names of the steps inserted by those hooks.
KnownAfter(n) ==
    BaseNameSet \cup
    {hook_actions[j].step.name :
        j \in {k \in 1..n : IsInsertion(hook_actions[k])}}

\* The call ended in the hook loop, at the hook CurrentHook.
StoppedAtHook ==
    pc = "done" /\ ~HasDuplicateNames(steps) /\ hook_index < Len(hook_actions)

UnknownTargetReported ==
    /\ Len(log) > 0
    /\ log[Len(log)] = LogEntry("error", "Target step does not exist",
                                CurrentHook.target_name)

\* C22: a hook is rejected for an unknown target exactly when its target is
\* neither a base name nor the name of a step inserted by an earlier hook of
\* the list; the call then logs an error, returns False and executes nothing.
\* Every hook that was applied had a target known at its turn.
C22_UnknownTargetExactly ==
    /\ pc = "hooks" => names = KnownAfter(hook_index)
    /\ \A j \in 1..hook_index :
          ~HasDuplicateNames(steps) =>
              hook_actions[j].target_name \in KnownAfter(j - 1)
    /\ StoppedAtHook =>
          /\ (CurrentHook.target_name \notin KnownAfter(hook_index))
                <=> UnknownTargetReported
          /\ UnknownTargetReported =>
                /\ result = "False"
                /\ events = <<>>

\* A resume hook on "x" ahead of the hook that inserts "x": rejected.
C22_Witness ==
    /\ StoppedAtHook
    /\ steps = ABC
    /\ hook_actions = << make_pre_resume_hook("x"),
                         make_post_insertion_hook("a", step_function("x")) >>
    /\ hook_index = 0
    /\ UnknownTargetReported
    /\ result = "False"

\* The hook loop is over and the step loop has been entered or passed.
StartedExecuting == pc \in {"run", "post_steps"} \/ Len(events) > 0

\* C23: whenever run_steps executes steps (the base list was duplicate free
\* and every hook was applied), the names of the mutated sequence are
\* pairwise distinct, and they are the names the hook loop recorded.
C23_MutatedNamesDistinct ==
    pc \in {"check_types", "run", "post_steps"} \/ StartedExecuting =>
        /\ ~HasDuplicateNames(new_steps)
        /\ names = {new_steps[i].name : i \in 1..Len(new_steps)}

\* Three base steps and two insertions applied: five distinct names.
C23_Witness ==
    /\ pc = "run"
    /\ Len(events) > 0
    /\ hook_index = 2
    /\ \A i \in 1..2 : IsInsertion(hook_actions[i])
    /\ Len(new_steps) = 5
    /\ Cardinality(names) = 5

\* ------------------------------------------------------------------------
\* Claims on do_between_steps
\* ------------------------------------------------------------------------
IsBetween(e) == e.type = "do_between_steps"

\* The calls of do_between_steps made so far, in order.
BetweenEvents == SelectSeq(events, IsBetween)

\* Positions in events of the calls step.func(self).
FuncPositions == {k \in 1..Len(events) : IsFunc(events[k])}

\* Position of the last call of a step function before position k, 0 if
\* there is none.
PrevFuncPosition(k) ==
    LET earlier == {j \in FuncPositions : j < k}
    IN  IF earlier = {} THEN 0
        ELSE CHOOSE j \in earlier : \A i \in earlier : i <= j

\* C24: for two steps executed one after the other, neither named "pause",
\* do_between_steps is called exactly once between the two actions, with
\* (previous step, next step), and the previous action returned True; the
\* prev argument of every do_between_steps call is a step that was executed.
C24_BetweenStepsOncePerPair ==
    /\ \A k \in FuncPositions :
          LET j == PrevFuncPosition(k) IN
          (j # 0 /\ events[j].step.name # "pause"
                 /\ events[k].step.name # "pause") =>
              /\ events[j].out = "true"
              /\ k = j + 2
              /\ events[j + 1] =
                    Event("do_between_steps", events[j].step, events[k].step,
                          Unrecorded)
    /\ \A k \in 1..Len(events) :
          IsBetween(events[k]) =>
              \E j \in FuncPositions : j < k /\ events[j].step = events[k].step

\* a is skipped by a pre-resume hook on b; b and c run with one
\* do_between_steps(b, c) between them.
C24_Witness ==
    /\ pc = "done"
    /\ steps = ABC
    /\ hook_actions = <<make_pre_resume_hook("b")>>
    /\ NamesOf(Executed) = <<"b", "c">>
    /\ BetweenEvents = << Event("do_between_steps", make_step_from_method(bound_method("b"), ""),
                                make_step_from_method(bound_method("c"), ""), Unrecorded) >>

\* C25: when the step about to run is named "pause" and a step ran before
\* it, do_between_steps is called once with (previous executed step, the
\* step after the pause step in the mutated sequence) if there is such a
\* step and is not called if the pause step is last; no call of
\* do_between_steps has a step named "pause" as its next argument.
C25_BetweenStepsSkipsPause ==
    /\ \A k \in FuncPositions :
          LET j == PrevFuncPosition(k)
              p == PosOf(new_steps, "pause")
          IN  (j # 0 /\ events[k].step.name = "pause") =>
                  IF p < Len(new_steps)
                  THEN /\ k = j + 2
                       /\ events[j + 1] =
                             Event("do_between_steps", events[j].step,
                                   new_steps[p + 1], Unrecorded)
                  ELSE k = j + 1
    /\ \A k \in 1..Len(events) :
          IsBetween(events[k]) => events[k].next.name # "pause"

\* A pause step inserted after a: a runs, then do_between_steps(a, b), then
\* the pause step.
C25_Witness ==
    /\ pc = "done"
    /\ steps = ABC
    /\ hook_actions = <<make_post_pause_hook("a")>>
    /\ NamesOf(Executed) = <<"a", "pause">>
    /\ BetweenEvents = << Event("do_between_steps", make_step_from_method(bound_method("a"), ""),
                                make_step_from_method(bound_method("b"), ""), Unrecorded) >>

\* ------------------------------------------------------------------------
\* Claims on the shape of a run
\* ------------------------------------------------------------------------
IsSkipEntry(e) == e.msg = "Sub-step skipped due to resume hook"

\* The names of the steps skipped so far, in order.
Skipped ==
    LET sk == SelectSeq(log, IsSkipEntry) IN [i \in 1..Len(sk) |-> sk[i].step]

\* The skipped steps are the first steps of the mutated sequence and the
\* executed steps are the steps right after them, in sequence order, each
\* executed once.
SkippedThenExecuted ==
    LET s == Len(Skipped)
        n == Len(Executed)
    IN  /\ s + n <= Len(new_steps)
        /\ Skipped = NamesOf(SubSeq(new_steps, 1, s))
        /\ Executed = SubSeq(new_steps, s + 1, s + n)
        /\ \A i, j \in 1..n : i < j => Executed[i] # Executed[j]

\* Past the hook loop, a resume marker that is None stays None and no
\* further step is skipped.
ClearedMarkerStaysCleared ==
    (pc \in {"check_types", "run", "post_steps", "done"} /\ resume_step = None)
        => (resume_step' = None /\ Skipped' = Skipped)

\* C26: the executed steps are one contiguous block of the mutated sequence,
\* in sequence order and each at most once; the skipped steps are a prefix
\* of the sequence; once the resume marker is cleared it is never set again
\* and no later step is skipped.
C26_ExecutedBlockAfterSkippedPrefix ==
    /\ [] SkippedThenExecuted
    /\ [][ClearedMarkerStaysCleared]_vars

\* a and b are skipped by a post-resume hook on b; an inserted step x and c
\* run after them.
C26_Witness ==
    /\ pc = "done"
    /\ steps = ABC
    /\ hook_actions = << make_post_resume_hook("b"),
                         make_pre_insertion_hook("c", step_function("x")) >>
    /\ Skipped = <<"a", "b">>
    /\ NamesOf(Executed) = <<"x", "c">>
    /\ resume_step = None

\* C27: a step action that returns a value that is not a boolean (and did
\* not raise the pause exception) ends run_steps with an error: the call
\* returns neither True nor False, no step or callback is invoked after it.
C27_NonBooleanIsFatal ==
    \A k \in 1..Len(events) :
        (IsFunc(events[k]) /\ events[k].out = "nonbool") =>
            /\ k = Len(events)
            /\ pc = "done"
            /\ result = "AssertionError"

\* The second of three steps returned a non-boolean: the call raised and
\* the third step was not invoked.
C27_Witness ==
    /\ pc = "done"
    /\ result = "AssertionError"
    /\ Len(new_steps) = 3
    /\ Len(FuncEvents) = 2
    /\ FuncEvents[1].out = "true"
    /\ FuncEvents[2].out = "nonbool"

\* ------------------------------------------------------------------------
\* Calls with two resume hooks among other hooks
\* ------------------------------------------------------------------------
\* Two resume hooks, two insertions, a ReplaceStep action whose step is not
\* named like its target and an insertion without a step; the hook lists are
\* long enough to hold two resume hooks and another hook before, between or
\* after them.
TwoResumeHooks ==
    { make_pre_resume_hook("a"),
      make_post_resume_hook("b"),
      make_pre_insertion_hook("a", step_function("x")),
      make_post_insertion_hook("c", step_function("y")),
      HammerToolHookAction("b", ReplaceStep,
                           make_step_from_function(step_function("x"), "")),
      HammerToolHookAction("a", InsertPreStep, NoStep) }

InitTwoResume ==
    /\ steps \in SeqsUpTo(BaseSteps, MaxSteps)
    /\ hook_actions \in SeqsUpTo(TwoResumeHooks, MaxHooks + 1)
    /\ pc = "check_duplicates"
    /\ names = {}
    /\ new_steps = <<>>
    /\ resume_step = None
    /\ resume_step_pre = TRUE
    /\ hook_index = 0
    /\ step_index = 0
    /\ prev_step = NoStep
    /\ events = <<>>
    /\ log = <<>>
    /\ result = "none"

SpecTwoResume == InitTwoResume /\ [][Next]_vars

HasTwoResumeHooks == Len(SelectSeq(hook_actions, IsResumeHook)) >= 2

\* Position in hook_actions of the second resume hook.
SecondResumePos ==
    CHOOSE i \in 1..Len(hook_actions) :
        /\ IsResumeHook(hook_actions[i])
        /\ Cardinality({j \in 1..(i - 1) : IsResumeHook(hook_actions[j])}) = 1

\* A hook at which hook application fails an assertion once its target is
\* found: an insertion or replacement without a step, or a replacement
\* whose step is not named like its target.
FailsAssertion(h) ==
    /\ h.location \in {ReplaceStep, InsertPreStep, InsertPostStep}
    /\ IF h.step = NoStep THEN TRUE ELSE IsMismatchedReplace(h)

\* C9 as stated: a hook list with two resume hooks never leads to a step
\* action, and the call returns False.
C9_AsStated ==
    HasTwoResumeHooks =>
        /\ FuncEvents = <<>>
        /\ pc = "done" => result = "False"

\* C9 (amended): a hook list with two resume hooks (of any kinds and
\* targets, with other hooks before, between or after them) never leads to
\* a step action or a lifecycle callback and the call never returns True; it
\* returns False, except that it raises AssertionError when, ahead of the
\* second resume hook, hook application reaches a hook with an existing
\* target that has no step or a ReplaceStep hook whose step is not named like
\* its target.
C9_TwoResumeHooksRejected ==
    HasTwoResumeHooks =>
        /\ events = <<>>
        /\ pc \in {"check_duplicates", "hooks", "done"}
        /\ result # "True"
        /\ pc = "done" =>
              IF /\ ~HasDuplicateNames(steps)
                 /\ CurrentHook.target_name \in names
                 /\ FailsAssertion(CurrentHook)
              THEN result = "AssertionError" /\ hook_index + 1 < SecondResumePos
              ELSE result = "False"

\* The second of two resume hooks on valid, different targets was rejected,
\* after an insertion between the two was applied.
C9_Witness ==
    /\ steps = ABC
    /\ hook_actions = << make_post_resume_hook("b"),
                         make_pre_insertion_hook("a", step_function("x")),
                         make_pre_resume_hook("a") >>
    /\ pc = "done"
    /\ result = "False"
    /\ hook_index = 2
    /\ NamesOf(new_steps) = <<"x", "a", "b", "c">>
    /\ log[Len(log)].msg = "More than one resume hook is present"

\* ------------------------------------------------------------------------
\* Termination of a call
\* ------------------------------------------------------------------------
\* run_steps is sequential code: while the call has not ended, its next
\* statement is executed (step actions and callbacks are taken to return).
\* The calls considered take their hooks from one hook of each kind, a
\* hand-built insertion of an object that is not a HammerToolStep and one
\* without a step included,
\* and their steps from the steps of the tool, an object that is not a
\* HammerToolStep and a hand-built step of a function without annotations.
TerminationHooks ==
    { make_pre_insertion_hook("a", step_function("x")),
      make_post_pause_hook("c"),
      make_pre_resume_hook("b"),
      make_post_resume_hook("x"),
      make_replacement_hook("b", step_function("x")),
      HammerToolHookAction("b", ReplaceStep,
                           make_step_from_function(step_function("x"), "")),
      HammerToolHookAction("c", InsertPostStep,
                           OtherStep(step_function("y"), "y")),
      HammerToolHookAction("a", InsertPreStep, NoStep) }

TerminationSteps ==
    BaseSteps \cup { OtherStep(step_function("x"), "b"),
                     HammerToolStep(untyped, "u") }

InitTerminates ==
    /\ steps \in SeqsUpTo(TerminationSteps, MaxSteps)
    /\ hook_actions \in SeqsUpTo(TerminationHooks, MaxHooks)
    /\ pc = "check_duplicates"
    /\ names = {}
    /\ new_steps = <<>>
    /\ resume_step = None
    /\ resume_step_pre = TRUE
    /\ hook_index = 0
    /\ step_index = 0
    /\ prev_step = NoStep
    /\ events = <<>>
    /\ log = <<>>
    /\ result = "none"

\* What a lifecycle callback of a tool that overrides it can raise:
\* HammerToolPauseException ("pause") or another exception ("raise").
CallbackExceptions == {"pause", "raise"}

\* A loop iteration with do_step = True in which the lifecycle callback
\* raises: "self.do_pre_steps(step)" and "self.do_between_steps(...)" are
\* inside the try block, so HammerToolPauseException is caught there (the
\* loop is left as for a paused step) and any other exception leaves
\* run_steps; step.func is not called.
CallbackRaises ==
    /\ pc = "run"
    /\ do_step_of(resume_step, resume_step_pre, step.name)
    /\ lifecycle_calls(prev_step, step, step_index, new_steps) # <<>>
    /\ \E exc \in CallbackExceptions :
        LET rs1 == resume_after_check(resume_step, resume_step_pre, step.name)
            log1 == log \o <<LogEntry("debug", "Running sub-step", step.name)>>
                    \o (IF rs1 # resume_step
                        THEN <<LogEntry("info", "Resuming before", step.name)>>
                        ELSE <<>>)
            call == lifecycle_calls(prev_step, step, step_index, new_steps)[1]
        IN
        /\ events' = Append(events, [call EXCEPT !.out = exc])
        /\ resume_step' = rs1
        /\ IF step_paused(exc)
           THEN /\ log' = Append(log1, LogEntry("info",
                                    "Sub-step paused the tool execution",
                                    step.name))
                /\ pc' = "post_steps"
                /\ UNCHANGED result
           ELSE /\ log' = log1
                /\ result' = "Exception"
                /\ pc' = "done"
    /\ UNCHANGED <<steps, hook_actions, names, new_steps, resume_step_pre,
                   hook_index, step_index, prev_step>>

\* "self.do_post_steps()" raises: the call is outside the try block, so the
\* exception, HammerToolPauseException included, leaves run_steps.
PostStepsRaises ==
    /\ pc = "post_steps"
    /\ \E exc \in CallbackExceptions :
        /\ events' = Append(events,
                            Event("do_post_steps", NoStep, NoStep, exc))
        /\ result' = IF step_paused(exc) THEN "HammerToolPauseException"
                     ELSE "Exception"
    /\ pc' = "done"
    /\ UNCHANGED <<steps, hook_actions, names, new_steps, resume_step,
                   resume_step_pre, hook_index, step_index, prev_step, log>>

\* run_steps of a tool whose lifecycle callbacks can raise.
NextTerminates == Next \/ CallbackRaises \/ PostStepsRaises

SpecTerminates ==
    InitTerminates /\ [][NextTerminates]_vars /\ WF_vars(NextTerminates)

\* The ways a call can end.
EndedRejected ==
    /\ pc = "done" /\ events = <<>>
    /\ result \in {"False", "AssertionError", "ValueError", "TypeError"}

EndedStepFailed ==
    /\ pc = "done" /\ result = "False"
    /\ events # <<>> /\ events[Len(events)].out = "false"

\* The pause signal was raised by a step action, or by the pre-steps or
\* between-steps callback, and do_post_steps returned.
EndedPaused ==
    /\ pc = "done" /\ result = "True"
    /\ Len(events) >= 2
    /\ events[Len(events) - 1].out = "pause"
    /\ IsPostSteps(events[Len(events)])

EndedCompleted ==
    /\ pc = "done" /\ result = "True"
    /\ AllReturnedTrue
    /\ Len(Skipped) + Len(Executed) = Len(new_steps)
    /\ IsPostSteps(events[Len(events)])

EndedFatal ==
    /\ pc = "done" /\ result = "AssertionError"
    /\ events # <<>> /\ events[Len(events)].out = "nonbool"

\* An exception raised by a step action or by a callback left run_steps.
EndedRaised ==
    /\ pc = "done" /\ result \in {"Exception", "HammerToolPauseException"}
    /\ events # <<>> /\ events[Len(events)].out \in CallbackExceptions

\* Exactly one of the boolean values of the tuple t is TRUE.
ExactlyOneOf(t) == Cardinality({i \in 1..Len(t) : t[i]}) = 1

\* C28 as stated: every call ends, in exactly one of validation rejection,
\* step failure, pause or completion, and invokes at most as many step
\* actions as the mutated sequence is long.
C28_AsStated ==
    /\ <>(pc = "done")
    /\ [](pc = "done" =>
            ExactlyOneOf(<<EndedRejected, EndedStepFailed, EndedPaused,
                           EndedCompleted>>))
    /\ [](Len(FuncEvents) <= Len(new_steps))

\* C28 (amended): every call ends, in exactly one of validation rejection
\* (False, AssertionError for a ReplaceStep name mismatch or for an insertion
\* or replacement hook without a step, or ValueError or TypeError for an
\* element of the mutated sequence that is not a step of the required
\* signature), step failure (False), pause (True; the pause signal raised by
\* a step action or by the pre-steps or between-steps callback), completion
\* of all steps (True), a fatal error (AssertionError) for a step action that
\* returned a non-boolean, or an exception that leaves run_steps (another
\* exception raised by a step action or by a callback, or any exception
\* raised by do_post_steps); the number of step actions invoked never
\* exceeds the length of the mutated sequence.
C28_TerminatesInOneOutcome ==
    /\ <>(pc = "done")
    /\ [](pc = "done" =>
            ExactlyOneOf(<<EndedRejected, EndedStepFailed, EndedPaused,
                           EndedCompleted, EndedFatal, EndedRaised>>))
    /\ [](Len(FuncEvents) <= Len(new_steps))

\* A call that ran every step of a four-step mutated sequence to the end.
C28_Witness ==
    /\ EndedCompleted
    /\ hook_actions = <<make_pre_insertion_hook("a", step_function("x"))>>
    /\ Len(new_steps) = 4
    /\ Len(FuncEvents) = 4

\* ------------------------------------------------------------------------
\* The caller's lists
\* ------------------------------------------------------------------------
\* C29: no statement of run_steps changes the caller's step list or hook
\* list, whatever the hooks and however the call ends.
C29_CallerListsUntouched ==
    [][steps' = steps /\ hook_actions' = hook_actions]_vars

\* A call that ended after a replacement and an insertion were applied to
\* new_steps; the caller's list is as it was.
C29_Witness ==
    /\ pc = "done"
    /\ steps = ABC
    /\ hook_actions = << make_replacement_hook("b", step_function("x")),
                         make_post_insertion_hook("a", step_function("y")) >>
    /\ NamesOf(new_steps) = <<"a", "y", "b", "c">>
    /\ new_steps[3].func = step_function("x")

\* ------------------------------------------------------------------------
\* Calls with pause hooks
\* ------------------------------------------------------------------------
\* The steps of a tool one of whose methods, and so one of whose steps, is
\* named "pause"; it does what its author wrote, as any method.
PauseBaseSteps ==
    { make_step_from_method(bound_method("a"), ""),
      make_step_from_method(bound_method("b"), ""),
      make_step_from_method(bound_method("pause"), "") }

PauseTargets == {"a", "b"}

PauseHooks ==
    {make_pre_pause_hook(t) : t \in PauseTargets}
    \cup {make_post_pause_hook(t) : t \in PauseTargets}
    \cup {make_pre_resume_hook("a")}

\* Hook lists of pause and resume hooks, and the lists of make_from_to_hooks
\* followed by one more pause hook.
PauseHookLists ==
    SeqsUpTo(PauseHooks, MaxHooks)
    \cup {make_from_to_hooks(f, Some(t)) \o <<make_pre_pause_hook(p)>> :
             f \in {Some(n) : n \in PauseTargets} \cup {None},
             t \in PauseTargets, p \in PauseTargets}

InitPause ==
    /\ steps \in SeqsUpTo(PauseBaseSteps, MaxSteps)
    /\ hook_actions \in PauseHookLists
    /\ pc = "check_duplicates"
    /\ names = {}
    /\ new_steps = <<>>
    /\ resume_step = None
    /\ resume_step_pre = TRUE
    /\ hook_index = 0
    /\ step_index = 0
    /\ prev_step = NoStep
    /\ events = <<>>
    /\ log = <<>>
    /\ result = "none"

NextPause ==
    \/ CheckDuplicates
    \/ HookUnknownTarget
    \/ HookInsertPre
    \/ HookInsertPost
    \/ HookResume
    \/ CheckFunctionTypes
    \/ SkipStep
    \/ ExecStep
    \/ DoPostSteps

SpecPause == InitPause /\ [][NextPause]_vars

\* A hook that inserts a step of the pause function.
IsPauseHook(h) == IsInsertion(h) /\ h.step.func = make_pause_function

\* Positions of the pause hooks in the hook list.
PauseHookPositions ==
    {i \in 1..Len(hook_actions) : IsPauseHook(hook_actions[i])}

\* The hook list holds two pause hooks, or one and the base list has a step
\* named "pause".
PauseNameClash ==
    \/ Cardinality(PauseHookPositions) >= 2
    \/ (PauseHookPositions # {} /\ "pause" \in BaseNameSet)

\* No hook of the list fails for another reason: every target is a base
\* name and at most one hook is a resume hook.
OnlyPauseClash ==
    /\ ~HasDuplicateNames(steps)
    /\ \A i \in 1..Len(hook_actions) :
          hook_actions[i].target_name \in BaseNameSet
    /\ Cardinality({i \in 1..Len(hook_actions) :
                       IsResumeHook(hook_actions[i])}) <= 1

\* C30: every pause hook inserts a step named "pause"; a call whose hook
\* list holds two pause hooks, or one pause hook on a base list with a step
\* named "pause", never reaches the step loop: it returns False with an
\* error logged and nothing executed, and when nothing else is wrong with
\* the call the error is "New step already exists" for the name "pause".
C30_SecondPauseRejected ==
    /\ \A i \in PauseHookPositions : hook_actions[i].step.name = "pause"
    /\ PauseNameClash =>
          /\ events = <<>>
          /\ pc \in {"check_duplicates", "hooks", "done"}
          /\ pc = "done" =>
                /\ result = "False"
                /\ log # <<>>
                /\ log[Len(log)].level = "error"
                /\ OnlyPauseClash =>
                      log = <<LogEntry("error", "New step already exists",
                                       "pause")>>

\* make_from_to_hooks(Some("a"), Some("b")) followed by a pause hook before a: the
\* second pause hook is refused.
C30_Witness ==
    /\ pc = "done"
    /\ NamesOf(steps) = <<"a", "b">>
    /\ hook_actions = make_from_to_hooks(Some("a"), Some("b")) \o <<make_pre_pause_hook("a")>>
    /\ hook_index = 2
    /\ NamesOf(new_steps) = <<"a", "b", "pause">>
    /\ result = "False"
    /\ log = <<LogEntry("error", "New step already exists", "pause")>>

\* ------------------------------------------------------------------------
\* make_from_to_hooks with from_step after to_step
\* ------------------------------------------------------------------------
\* C31: with from_step = f strictly after to_step = t in the base list, the
\* pause step inserted after t is skipped with the steps before f; the steps
\* invoked are f and its successors, in order, and when each returns True
\* all of them are invoked and the call returns True.
C31_FromAfterTo ==
    \A f, t \in BaseNameSet :
        (/\ ~HasDuplicateNames(steps)
         /\ hook_actions = make_from_to_hooks(Some(f), Some(t))
         /\ PosOf(steps, f) > PosOf(steps, t)) =>
            /\ IsPrefix(Executed, Suffix(steps, PosOf(steps, f)))
            /\ (Len(Executed) > 0 =>
                  Skipped = NamesOf(SubSeq(new_steps, 1, PosOf(steps, f))))
            /\ (pc = "done" /\ AllReturnedTrue =>
                  /\ result = "True"
                  /\ Executed = Suffix(steps, PosOf(steps, f)))

\* make_from_to_hooks(Some("c"), Some("a")) on [a, b, c]: a, the pause step and b are
\* skipped, c runs and the call returns True.
C31_Witness ==
    /\ steps = ABC
    /\ hook_actions = make_from_to_hooks(Some("c"), Some("a"))
    /\ pc = "done"
    /\ result = "True"
    /\ Skipped = <<"a", "pause", "b">>
    /\ NamesOf(Executed) = <<"c">>

\* ------------------------------------------------------------------------
\* HammerTool.run: run_steps, then fill_outputs
\* ------------------------------------------------------------------------
\* What a call self.fill_outputs() can return (True unless overridden).
FillOutputsOutcomes == {"True", "False"}

\* A run that takes every value returned by run_steps for a success.
run_steps_succeeded_always(res) == TRUE

\* "if not self.run_steps(self.steps, hook_actions)": the negation of the
\* test, for a value run_steps returned.
run_steps_succeeded(res) == res = "True"

\* The values of result that stand for an exception that left run_steps.
Exceptions ==
    {"AssertionError", "ValueError", "TypeError", "Exception",
     "HammerToolPauseException"}

\* The rest of run() once run_steps(self.steps, hook_actions) has ended:
\* an exception goes on to the caller of run(); False makes run() return
\* False; otherwise run() returns self.fill_outputs().  The end of
\* run_steps is recorded in events.
run ==
    /\ pc = "done"
    /\ pc' = "run_done"
    /\ IF result \in Exceptions
       THEN /\ events' = Append(events, Event("return", NoStep, NoStep, result))
            /\ UNCHANGED result
       ELSE IF ~run_steps_succeeded(result)
       THEN /\ events' = Append(events, Event("return", NoStep, NoStep, result))
            /\ result' = "False"
       ELSE \E out \in FillOutputsOutcomes :
            /\ events' = events
                  \o << Event("return", NoStep, NoStep, result),
                        Event("fill_outputs", NoStep, NoStep, out) >>
            /\ result' = out
    /\ UNCHANGED <<steps, hook_actions, names, new_steps, resume_step,
                   resume_step_pre, hook_index, step_index, prev_step, log>>

NextRun == Next \/ run

\* A call run(hook_actions) of a tool whose steps are the list steps.
SpecRun == InitTerminates /\ [][NextRun]_vars

IsFillOutputs(e) == e.type = "fill_outputs"

\* The calls of fill_outputs made so far.
FillOutputsEvents == SelectSeq(events, IsFillOutputs)

\* C32: run() calls fill_outputs exactly when run_steps returned True (a
\* run ended by a pause included), once and after run_steps; run() returns
\* False when run_steps returned False and the value of fill_outputs
\* otherwise.
C32_FillOutputsIffStepsSucceeded ==
    /\ pc # "run_done" => FillOutputsEvents = <<>>
    /\ pc = "run_done" =>
          LET ret == Returns[1].out IN
          /\ Len(Returns) = 1
          /\ (FillOutputsEvents # <<>>) <=> (ret = "True")
          /\ ret = "False" => result = "False"
          /\ ret = "True" =>
                /\ Len(FillOutputsEvents) = 1
                /\ IsFillOutputs(events[Len(events)])
                /\ IsReturn(events[Len(events) - 1])
                /\ result = FillOutputsEvents[1].out
          /\ ret \in Exceptions => result = ret

\* A run ended by a pause hook: run_steps returned True, fill_outputs was
\* called, returned False, and so did run().
C32_Witness ==
    /\ pc = "run_done"
    /\ LastOutcome = "pause"
    /\ Returns = <<Event("return", NoStep, NoStep, "True")>>
    /\ FillOutputsEvents = <<Event("fill_outputs", NoStep, NoStep, "False")>>
    /\ result = "False"

\* ------------------------------------------------------------------------
\* A tool that overrides the lifecycle callbacks
\* ------------------------------------------------------------------------
\* What an overridden do_pre_steps, do_between_steps or do_post_steps can
\* return.
CallbackOutcomes == {"True", "False"}

\* The callback calls of an iteration, with the value the callback returned.
with_callback_result(calls, cb) ==
    [i \in 1..Len(calls) |-> [calls[i] EXCEPT !.out = cb]]

\* A loop in which a callback that returns False makes the step count as
\* failed.
func_out_and_callback(cb, out) == IF cb = "False" THEN "false" ELSE out

\* The value the loop goes on with after "self.do_pre_steps(step)" or
\* "self.do_between_steps(...)" and "func_out = step.func(self)": the calls
\* of the callbacks are expression statements, their value cb is dropped.
func_out_of(cb, out) == out

\* ExecStep for a tool with overridden callbacks: the callback returns cb,
\* then step.func(self) does out.
ExecStepOverridden ==
    /\ pc = "run"
    /\ do_step_of(resume_step, resume_step_pre, step.name)
    /\ \E cb \in CallbackOutcomes, out \in FuncOutcomes(step.func) :
        LET rs1 == resume_after_check(resume_step, resume_step_pre, step.name)
            log1 == log \o <<LogEntry("debug", "Running sub-step", step.name)>>
                    \o (IF rs1 # resume_step
                        THEN <<LogEntry("info", "Resuming before", step.name)>>
                        ELSE <<>>)
            calls == lifecycle_calls(prev_step, step, step_index, new_steps)
            func_out == func_out_of(cb, out)
        IN
        \* when no callback is called there is no value to choose
        /\ (calls = <<>> => cb = "True")
        /\ events' = events \o with_callback_result(calls, cb)
                            \o <<Event("func", step, NoStep, out)>>
        /\ IF step_paused(func_out)
           THEN /\ log' = Append(log1, LogEntry("info",
                                    "Sub-step paused the tool execution", step.name))
                /\ resume_step' = rs1
                /\ pc' = "post_steps"
                /\ UNCHANGED <<prev_step, step_index, result>>
           ELSE IF step_raised(func_out)
           THEN /\ log' = log1
                /\ resume_step' = rs1
                /\ result' = "Exception"
                /\ pc' = "done"
                /\ UNCHANGED <<prev_step, step_index>>
           ELSE IF ~is_bool(func_out)
           THEN /\ log' = log1
                /\ prev_step' = step
                /\ resume_step' = rs1
                /\ result' = "AssertionError"
                /\ pc' = "done"
                /\ UNCHANGED step_index
           ELSE IF step_failed(func_out)
           THEN /\ log' = log1
                /\ prev_step' = step
                /\ resume_step' = rs1
                /\ result' = "False"
                /\ pc' = "done"
                /\ UNCHANGED step_index
           ELSE /\ log' = log1
                       \o (IF resume_after_step(rs1, resume_step_pre, step.name) # rs1
                           THEN <<LogEntry("info", "Resuming after", step.name)>>
                           ELSE <<>>)
                /\ prev_step' = step
                /\ resume_step' = resume_after_step(rs1, resume_step_pre, step.name)
                /\ step_index' = step_index + 1
                /\ pc' = AfterStep
                /\ UNCHANGED result
    /\ UNCHANGED <<steps, hook_actions, names, new_steps, resume_step_pre,
                   hook_index>>

\* DoPostSteps for a tool with an overridden do_post_steps, which returns
\* cb: "self.do_post_steps()" then "return True".
DoPostStepsOverridden ==
    /\ pc = "post_steps"
    /\ \E cb \in CallbackOutcomes :
          events' = Append(events, Event("do_post_steps", NoStep, NoStep, cb))
    /\ result' = "True"
    /\ pc' = "done"
    /\ UNCHANGED <<steps, hook_actions, names, new_steps, resume_step,
                   resume_step_pre, hook_index, step_index, prev_step, log>>

NextCallbacks ==
    \/ CheckDuplicates
    \/ HookUnknownTarget
    \/ HookReplace
    \/ HookInsertPre
    \/ HookInsertPost
    \/ HookResume
    \/ CheckFunctionTypes
    \/ SkipStep
    \/ ExecStepOverridden
    \/ DoPostStepsOverridden

SpecCallbacks == InitTerminates /\ [][NextCallbacks]_vars

IsCallback(e) == e.type \in {"do_pre_steps", "do_between_steps", "do_post_steps"}

\* The result the step actions invoked so far leave the call with, once the
\* step loop has been entered.
ResultOfOutcomes ==
    IF LastOutcome = "false" THEN "False"
    ELSE IF LastOutcome = "nonbool" THEN "AssertionError"
    ELSE IF LastOutcome = "raise" THEN "Exception"
    ELSE "True"

\* C33: the values returned by the lifecycle callbacks have no influence on
\* a call.  Whatever they return: a do_pre_steps or do_between_steps call is
\* followed by the step action; the actions invoked are the steps of the
\* mutated sequence after the skipped ones, in order, as long as each
\* returns True; the call stops only at an action that does not return
\* True or at the end of the sequence; and the value returned is decided by
\* the outcome of the last action alone.
C33_CallbackResultsIgnored ==
    /\ \A k \in 1..Len(events) :
          IsLifecycle(events[k]) => (k < Len(events) /\ IsFunc(events[k + 1]))
    /\ SkippedThenExecuted
    /\ \A i \in 1..(Len(FuncEvents) - 1) : FuncEvents[i].out = "true"
    /\ (pc = "done" /\ events # <<>>) =>
          /\ result = ResultOfOutcomes
          /\ LastOutcome \in {"true", Unrecorded} =>
                Len(Skipped) + Len(Executed) = Len(new_steps)
    /\ (pc \in {"run", "post_steps"} /\ Len(FuncEvents) > 0) =>
          LastOutcome \in {"true", "pause"}

\* Every callback returned False, and the three steps ran to the end with
\* the call returning True.
C33_Witness ==
    /\ pc = "done"
    /\ result = "True"
    /\ steps = ABC
    /\ Executed = ABC
    /\ \A k \in 1..Len(events) :
          IsCallback(events[k]) => events[k].out = "False"
    /\ Len(SelectSeq(events, IsCallback)) = 4

\* ------------------------------------------------------------------------
\* Calls with resume hooks only
\* ------------------------------------------------------------------------
InitResume ==
    /\ steps \in SeqsUpTo(BaseSteps, MaxSteps)
    /\ hook_actions \in SeqsUpTo(ResumeHooks, MaxHooks)
    /\ pc = "check_duplicates"
    /\ names = {}
    /\ new_steps = <<>>
    /\ resume_step = None
    /\ resume_step_pre = TRUE
    /\ hook_index = 0
    /\ step_index = 0
    /\ prev_step = NoStep
    /\ events = <<>>
    /\ log = <<>>
    /\ result = "none"

NextResume ==
    \/ CheckDuplicates
    \/ HookUnknownTarget
    \/ HookResume
    \/ CheckFunctionTypes
    \/ SkipStep
    \/ ExecStep
    \/ DoPostSteps

SpecResume == InitResume /\ [][NextResume]_vars

\* The validated call has an empty step list, or one post-resume hook on the
\* last step of the list.
NothingToExecute ==
    /\ Validated
    /\ \/ steps = <<>>
       \/ /\ Len(hook_actions) = 1
          /\ hook_actions[1].location = ResumePostStep
          /\ hook_actions[1].target_name = steps[Len(steps)].name

\* C34: a validated call that executes no step (an empty step list, or a
\* post-resume hook on the last step, which are the only such calls) returns
\* True and calls do_post_steps once and no other callback.
C34_NothingExecutedStillPostSteps ==
    /\ NothingToExecute => Executed = <<>>
    /\ (pc = "done" /\ Validated /\ Executed = <<>>) =>
          /\ NothingToExecute
          /\ result = "True"
          /\ events = <<Event("do_post_steps", NoStep, NoStep, Unrecorded)>>

\* [a, b] with a post-resume hook on b: both steps are skipped.
C34_Witness ==
    /\ pc = "done"
    /\ NamesOf(steps) = <<"a", "b">>
    /\ hook_actions = <<make_post_resume_hook("b")>>
    /\ Skipped = <<"a", "b">>
    /\ events = <<Event("do_post_steps", NoStep, NoStep, Unrecorded)>>
    /\ result = "True"

\* ------------------------------------------------------------------------
\* The set names during the hook loop
\* ------------------------------------------------------------------------
\* The call ended in the hook loop with an AssertionError.
HookAssertionFailed ==
    StoppedAtHook /\ result = "AssertionError"

\* C35: from the duplicate check to the end of the hook loop, after every
\* applied hook, names is exactly the set of the names of new_steps; the
\* search for the target of a hook that passed has_step always finds an
\* index, and the only assertion of the hook loop that can fail is the name
\* assertion of a ReplaceStep hook, never "assert step_id != -1".
C35_NamesMatchWorkingSequence ==
    /\ (pc = "hooks" \/ StoppedAtHook) =>
          names = {new_steps[i].name : i \in 1..Len(new_steps)}
    /\ (pc = "hooks" /\ has_step(names, action.target_name)) =>
          /\ step_id_of(new_steps, action.target_name) # -1
          /\ new_steps[step_id_of(new_steps, action.target_name) + 1].name
                = action.target_name
    /\ HookAssertionFailed =>
          /\ IsMismatchedReplace(CurrentHook)
          /\ step_id_of(new_steps, CurrentHook.target_name) # -1

\* After the insertion of x before a, the hook loop stands at a resume hook
\* on x, which is found at index 0 of new_steps.
C35_Witness ==
    /\ pc = "hooks"
    /\ steps = ABC
    /\ hook_actions = << make_pre_insertion_hook("a", step_function("x")),
                         make_pre_resume_hook("x") >>
    /\ hook_index = 1
    /\ names = {"a", "b", "c", "x"}
    /\ step_id_of(new_steps, "x") = 0
====
